---- MODULE Spec2Model ----
(***************************************************************************)
(* Model of the aeon process runtime: the status machine of one Process,   *)
(* the GC suspension handshake between the worker thread that drives the   *)
(* process and the GC thread that collects it (vm/src/process.rs), and the *)
(* worker's run queue (vm/src/thread.rs).                                  *)
(*                                                                         *)
(* Every method of Process is split into the steps at which it touches     *)
(* shared memory: taking the status mutex, reading or writing the status   *)
(* under it, notify_all on the condvar, releasing the mutex, and each      *)
(* unsynchronised access to LocalData (suspend_for_gc, gc_state).          *)
(*                                                                         *)
(* Further parts, each with a specification of its own over the same       *)
(* variables: the write barrier and the remembered set (SpecBarrier), the  *)
(* mailbox (SpecMailbox), ExecutionContext::find_parent (SpecFindParent),  *)
(* the context stack and Process::roots (SpecRoots), and the Thread with   *)
(* its three mutexes and its condvar (SpecThread).                         *)
(***************************************************************************)
EXTENDS Integers, Sequences, FiniteSets, TLC

\* Bounds of the model.
MaxQueue == 2
MaxRequests == 2
MaxWrites == 3
MaxSend == 2
MaxChain == 4
MaxDepth == 4
MaxContexts == 2
MaxStream == 5
MaxContent == 3
MaxNest == 1
MaxSchedules == 3

Threads == {"worker", "gc"}

\* The users of a Thread: the thread itself, which waits for work and pops
\* it, the threads that schedule processes on it, and the one that stops it.
Consumer == "consumer"

Schedulers == {"s1", "s2"}

Stopper == "stopper"

\* The processes that are scheduled (pids).
Tasks == {1, 2}

\* The processes that send to the mailbox of the process.
Producers == {"p1", "p2"}

\* ObjectPointer::null(), the self object of the test process
Null == 0

\* The indices of the locals and of the registers that are used.
Locals == {0}

Registers == {0, 1}

\* let thread_count = 3
thread_count == 3

\* The thread that calls roots(), and the threads it spawns.
Caller == 0

Stealers == 1..thread_count

\* ExecutionContext::with_object(object, code, None): no local and no
\* register is set.
WithObject(object) ==
    [self_object |-> object,
     locals |-> [i \in Locals |-> <<>>],
     register |-> [i \in Registers |-> <<>>],
     instruction_index |-> 0]

\* Option: None, and Some(x)
None == <<>>

Some(x) == <<x>>

ProcessStatus ==
    {"Scheduled", "Running", "Suspended", "SuspendedByGc", "Failed", "Finished"}

GcState == {"None", "Scheduled"}

\* The pid of the one process of the model.
Pid == 1

VARIABLES
    status,           \* Process.status (behind the status mutex)
    status_lock,      \* owner of the status mutex: "none" or a thread
    status_signaler,  \* threads blocked in status_signaler.wait()
    suspend_for_gc,   \* LocalData.suspend_for_gc
    gc_state,         \* LocalData.gc_state
    process_queue,    \* Thread.process_queue of the worker (pids)
    gc_requests,      \* collection Requests posted and not yet dequeued
    pc,               \* position of each thread
    new_status,       \* argument of the status setter each thread is in
    overwrite,        \* the local "overwrite" of the guarded status setter
    ret,              \* where each thread continues after the setter
    young_exceeded,   \* the allocator's young block threshold is exceeded
    remembered_set,   \* LocalData.remembered_set
    writes,           \* the write_barrier calls made so far
    mailbox,          \* Process.mailbox: the queued messages, oldest first
    mailbox_allocator,\* owner of the mailbox allocator's mutex
    mailbox_top,      \* objects allocated in the mailbox heap
    sender,           \* each producer's position in send_message
    pushed,           \* the pushes made so far, in the order they happened
    received,         \* the messages receive_message has returned
    last,             \* the result of the latest receive_message
    chain,            \* an ExecutionContext with its ancestors, nearest first
    call,             \* the latest find_parent call on it and its outcome
    context,          \* LocalData.context and its parents, current first
    pointers,         \* the slot handles the latest roots() returned
    rewritten,        \* an address was written through every handle
    wake_up,          \* Thread.wake_up
    should_stop,      \* Thread.should_stop
    queue_lock,       \* owner of the process_queue mutex
    wake_up_lock,     \* owner of the wake_up mutex
    should_stop_lock, \* owner of the should_stop mutex
    wakeup_signaler,  \* threads blocked in wakeup_signaler.wait()
    tpc,              \* position of each user of the Thread
    popped,           \* the result of the latest pop_process
    schedules,        \* per process, the schedule() calls that pushed it
    pops,             \* per process, the pop_process() calls that returned it
    got,              \* the result of get_register, the latest call
    last_set,         \* what set_register last wrote, per context on the stack
    stream,           \* the items of the Bytes<T> given to the parser
    code,             \* the CompiledCode the stream was encoded from, if any
    output,           \* the reader called on the stream, its result, its position
    iterator,         \* the ExecutionContextIterator contexts() returned
    yielded,          \* what its next() has returned so far, in order
    deque,            \* the work deque of roots(), the oldest item first
    rpc,              \* position of the caller of roots() and of its threads
    local_pointers,   \* the `pointers` Vec of each of them
    scanned,          \* the contexts each of them has scanned, in order
    stack_call,       \* the Process method the interpreter is calling
    stack_entry       \* the context stack when it was called

\* The write barrier's part of the state.
barrier_vars == <<remembered_set, writes>>

\* A context chain built with set_parent, and find_parent on it.
parent_vars == <<chain, call>>

\* The context stack of the process and its roots.
roots_vars == <<context, pointers, rewritten>>

\* The Thread's part of the state (process_queue is counted with the
\* status machine, which puts the process on it).
thread_vars == <<wake_up, should_stop, queue_lock, wake_up_lock,
                 should_stop_lock, wakeup_signaler, tpc, popped, schedules,
                 pops>>

\* Process::get_register and the record of the set_register calls.
register_vars == <<got, last_set>>

\* The bytecode parser's part of the state.
parser_vars == <<stream, code, output>>

\* The iterator over a context chain.
iter_vars == <<iterator, yielded>>

\* The threads of one roots() call.
steal_vars == <<deque, rpc, local_pointers, scanned>>

\* A call of a method of Process that works on the context stack.
stack_vars == <<stack_call, stack_entry>>

\* The mailbox's part of the state.
mailbox_vars == <<mailbox, mailbox_allocator, mailbox_top, sender, pushed,
                  received, last>>

vars == <<status, status_lock, status_signaler, suspend_for_gc, gc_state,
          process_queue, gc_requests, pc, new_status, overwrite, ret,
          young_exceeded, barrier_vars, mailbox_vars, parent_vars,
          roots_vars, thread_vars,
          register_vars,
          parser_vars,
          iter_vars,
          steal_vars,
    stack_vars>>

shared == <<status, status_lock, status_signaler, suspend_for_gc, gc_state,
            process_queue, gc_requests>>

\* The locals of the threads.
locals == <<new_status, overwrite, ret>>

\* The state of the other components of the runtime, which the status
\* methods of Process do not touch.
others == <<barrier_vars, mailbox_vars, parent_vars, roots_vars,
            thread_vars,
            register_vars,
            parser_vars,
            iter_vars,
            steal_vars,
    stack_vars>>

Jump(t, p) == pc' = [pc EXCEPT ![t] = p] /\ UNCHANGED others

Goto(t, p) == Jump(t, p) /\ UNCHANGED young_exceeded

\* Enter a status setter: remember the argument and the continuation.
Call(t, entry, s, r) ==
    /\ pc' = [pc EXCEPT ![t] = entry]
    /\ new_status' = [new_status EXCEPT ![t] = s]
    /\ ret' = [ret EXCEPT ![t] = r]
    /\ overwrite' = overwrite
    /\ UNCHANGED <<young_exceeded, others>>

\* Leave a status setter.
Return(t) ==
    /\ pc' = [pc EXCEPT ![t] = ret[t]]
    /\ new_status' = [new_status EXCEPT ![t] = "Scheduled"]
    /\ ret' = [ret EXCEPT ![t] = "idle"]
    /\ overwrite' = [overwrite EXCEPT ![t] = TRUE]
    /\ UNCHANGED <<young_exceeded, others>>

\* Process::new: status Scheduled, gc_state None, suspend_for_gc false; the
\* new process is on the run queue of its worker.
Init ==
    /\ status = "Scheduled"
    /\ status_lock = "none"
    /\ status_signaler = {}
    /\ suspend_for_gc = FALSE
    /\ gc_state = "None"
    /\ process_queue = <<Pid>>
    /\ gc_requests = 0
    /\ pc = [t \in Threads |-> "idle"]
    /\ new_status = [t \in Threads |-> "Scheduled"]
    /\ overwrite = [t \in Threads |-> TRUE]
    /\ ret = [t \in Threads |-> "idle"]
    /\ young_exceeded = FALSE
    /\ remembered_set = {}
    /\ writes = {}
    /\ mailbox = <<>>
    /\ mailbox_allocator = "none"
    /\ mailbox_top = 0
    /\ sender = [p \in Producers |->
                    [pc |-> "idle", message |-> None, to_send |-> None,
                     sent |-> 0]]
    /\ pushed = <<>>
    /\ received = <<>>
    /\ last = None
    /\ chain = <<[return_register |-> None]>>
    /\ call = [called |-> FALSE, depth |-> 0, found |-> None,
               panicked |-> FALSE]
    /\ context = <<WithObject(Null)>>
    /\ pointers = <<>>
    /\ rewritten = FALSE
    /\ wake_up = FALSE
    /\ should_stop = FALSE
    /\ queue_lock = "none"
    /\ wake_up_lock = "none"
    /\ should_stop_lock = "none"
    /\ wakeup_signaler = {}
    /\ tpc = [c \in {Consumer, Stopper} \cup Schedulers |-> "idle"]
    /\ popped = None
    /\ schedules = [task \in Tasks |-> IF task = Pid THEN 1 ELSE 0]
    /\ pops = [task \in Tasks |-> 0]
    /\ got = None
    /\ stream = <<>>
    /\ code = None
    /\ output = None
    /\ iterator = None
    /\ yielded = <<>>
    /\ deque = <<>>
    /\ rpc = [t \in {Caller} \cup Stealers |->
                 IF t = Caller THEN "idle" ELSE "unspawned"]
    /\ local_pointers = [t \in {Caller} \cup Stealers |-> <<>>]
    /\ scanned = [t \in {Caller} \cup Stealers |-> <<>>]
    /\ last_set = <<[register \in Registers |-> None]>>
    /\ stack_call = "none"
    /\ stack_entry = <<WithObject(Null)>>

(***************************************************************************)
(* Process::set_status                                                     *)
(***************************************************************************)
SetStatusLock(t) ==
    /\ pc[t] = "ss_lock"
    /\ status_lock = "none"
    /\ status_lock' = t
    /\ Goto(t, "ss_write")
    /\ UNCHANGED <<status, status_signaler, suspend_for_gc, gc_state,
                   process_queue, gc_requests, locals>>

SetStatusWrite(t) ==
    /\ pc[t] = "ss_write"
    /\ status' = new_status[t]
    /\ Goto(t, "ss_notify")
    /\ UNCHANGED <<status_lock, status_signaler, suspend_for_gc, gc_state,
                   process_queue, gc_requests, locals>>

\* Variant: the write is not announced on the condvar.
SetStatusNotify_Skipped(t) ==
    /\ pc[t] = "ss_notify"
    /\ status_signaler' = status_signaler
    /\ Goto(t, "ss_unlock")
    /\ UNCHANGED <<status, status_lock, suspend_for_gc, gc_state,
                   process_queue, gc_requests, locals>>

SetStatusNotify(t) ==
    /\ pc[t] = "ss_notify"
    /\ status_signaler' = {}
    /\ Goto(t, "ss_unlock")
    /\ UNCHANGED <<status, status_lock, suspend_for_gc, gc_state,
                   process_queue, gc_requests, locals>>

SetStatusUnlock(t) ==
    /\ pc[t] = "ss_unlock"
    /\ status_lock' = "none"
    /\ Return(t)
    /\ UNCHANGED <<status, status_signaler, suspend_for_gc, gc_state,
                   process_queue, gc_requests>>

(***************************************************************************)
(* Process::set_status_without_overwriting_gc_status                       *)
(***************************************************************************)
SwoLock(t) ==
    /\ pc[t] = "swo_lock"
    /\ status_lock = "none"
    /\ status_lock' = t
    /\ Goto(t, "swo_check")
    /\ UNCHANGED <<status, status_signaler, suspend_for_gc, gc_state,
                   process_queue, gc_requests, locals>>

\* Variant: the status is overwritten whatever it is.
SwoCheck_AlwaysOverwrite(t) ==
    /\ pc[t] = "swo_check"
    /\ overwrite' = [overwrite EXCEPT ![t] = TRUE]
    /\ Goto(t, "swo_flag")
    /\ UNCHANGED <<shared, new_status, ret>>

\* let overwrite = match *status { SuspendedByGc => false, _ => true };
\* if overwrite { ... }
SwoCheck(t) ==
    /\ pc[t] = "swo_check"
    /\ overwrite' = [overwrite EXCEPT ![t] = (status # "SuspendedByGc")]
    /\ IF status = "SuspendedByGc"
          THEN Goto(t, "swo_unlock")
          ELSE Goto(t, "swo_flag")
    /\ UNCHANGED <<shared, new_status, ret>>

\* if local_data.suspend_for_gc { ... } else { ... }
SwoFlag(t) ==
    /\ pc[t] = "swo_flag"
    /\ IF suspend_for_gc
          THEN Goto(t, "swo_gc")
          ELSE Goto(t, "swo_new")
    /\ UNCHANGED <<shared, locals>>

\* Variant: the flag is cleared but the intended status is written.
SwoWriteGc_WritesNewStatus(t) ==
    /\ pc[t] = "swo_gc"
    /\ suspend_for_gc' = FALSE
    /\ status' = new_status[t]
    /\ Goto(t, "swo_notify")
    /\ UNCHANGED <<status_lock, status_signaler, gc_state, process_queue,
                   gc_requests, locals>>

\* local_data.suspend_for_gc = false; *status = ProcessStatus::SuspendedByGc;
SwoWriteGc(t) ==
    /\ pc[t] = "swo_gc"
    /\ suspend_for_gc' = FALSE
    /\ status' = "SuspendedByGc"
    /\ Goto(t, "swo_notify")
    /\ UNCHANGED <<status_lock, status_signaler, gc_state, process_queue,
                   gc_requests, locals>>

\* *status = new_status;
SwoWriteNew(t) ==
    /\ pc[t] = "swo_new"
    /\ status' = new_status[t]
    /\ Goto(t, "swo_notify")
    /\ UNCHANGED <<status_lock, status_signaler, suspend_for_gc, gc_state,
                   process_queue, gc_requests, locals>>

SwoNotify(t) ==
    /\ pc[t] = "swo_notify"
    /\ status_signaler' = {}
    /\ Goto(t, "swo_unlock")
    /\ UNCHANGED <<status, status_lock, suspend_for_gc, gc_state,
                   process_queue, gc_requests, locals>>

SwoUnlock(t) ==
    /\ pc[t] = "swo_unlock"
    /\ status_lock' = "none"
    /\ Return(t)
    /\ UNCHANGED <<status, status_signaler, suspend_for_gc, gc_state,
                   process_queue, gc_requests>>

(***************************************************************************)
(* Worker-side methods of Process                                          *)
(***************************************************************************)
\* Process::running: self.set_status(ProcessStatus::Running)
Running(t) ==
    /\ pc[t] = "running"
    /\ Call(t, "ss_lock", "Running", "exec")
    /\ UNCHANGED shared

\* Process::finished
Finished(t) ==
    /\ pc[t] = "finished"
    /\ Call(t, "swo_lock", "Finished", "idle")
    /\ UNCHANGED shared

\* Process::suspend
Suspend(t) ==
    /\ pc[t] = "suspend"
    /\ Call(t, "swo_lock", "Suspended", "idle")
    /\ UNCHANGED shared

\* Process::suspended_by_gc, the first operand of should_suspend_for_gc():
\* locks the status, reads it and unlocks.
ShouldSuspendForGc(t) ==
    /\ pc[t] = "safepoint"
    /\ status_lock = "none"
    /\ IF status = "SuspendedByGc"
          THEN Goto(t, "suspend_for_gc")
          ELSE Goto(t, "ssfg_flag")
    /\ UNCHANGED <<shared, locals>>

\* ... || self.local_data().suspend_for_gc
ShouldSuspendForGcFlag(t) ==
    /\ pc[t] = "ssfg_flag"
    /\ IF suspend_for_gc
          THEN Goto(t, "suspend_for_gc")
          ELSE Goto(t, "exec")
    /\ UNCHANGED <<shared, locals>>

\* Process::suspend_for_gc: the flag is cleared without the status mutex,
\* then set_status(SuspendedByGc).
SuspendForGc(t) ==
    /\ pc[t] = "suspend_for_gc"
    /\ suspend_for_gc' = FALSE
    /\ Call(t, "ss_lock", "SuspendedByGc", "idle")
    /\ UNCHANGED <<status, status_lock, status_signaler, gc_state,
                   process_queue, gc_requests>>

\* Process::should_collect_young_generation
ShouldCollectYoungGeneration == young_exceeded

\* Variant: the answer does not depend on gc_state.
ShouldScheduleGc_IgnoresGcState(t) ==
    /\ pc[t] = "should_schedule_gc"
    /\ IF ShouldCollectYoungGeneration
          THEN Goto(t, "gc_scheduled")
          ELSE Goto(t, "safepoint")
    /\ UNCHANGED <<shared, locals>>

\* Process::should_schedule_gc: gc_state None and the young threshold exceeded.
ShouldScheduleGc(t) ==
    /\ pc[t] = "should_schedule_gc"
    /\ IF gc_state = "None"
          THEN IF ShouldCollectYoungGeneration
                  THEN Goto(t, "gc_scheduled")
                  ELSE Goto(t, "safepoint")
          ELSE Goto(t, "safepoint")
    /\ UNCHANGED <<shared, locals>>

\* Variant: gc_scheduled() leaves gc_state as it is.
GcScheduled_NotRecorded(t) ==
    /\ pc[t] = "gc_scheduled"
    /\ gc_state' = gc_state
    /\ Goto(t, "post_request")
    /\ UNCHANGED <<status, status_lock, status_signaler, suspend_for_gc,
                   process_queue, gc_requests, locals>>

\* Process::gc_scheduled
GcScheduled(t) ==
    /\ pc[t] = "gc_scheduled"
    /\ gc_state' = "Scheduled"
    /\ Goto(t, "post_request")
    /\ UNCHANGED <<status, status_lock, status_signaler, suspend_for_gc,
                   process_queue, gc_requests, locals>>

\* Process::should_be_rescheduled (the true branch)
ShouldBeRescheduled(t) ==
    /\ pc[t] = "idle"
    /\ status_lock = "none"
    /\ status = "Suspended"
    /\ Len(process_queue) < MaxQueue
    /\ Goto(t, "reschedule")
    /\ UNCHANGED <<shared, locals>>

(***************************************************************************)
(* Thread (vm/src/thread.rs): the worker's run queue                       *)
(***************************************************************************)
\* Thread::schedule: queue.push(task)
Schedule(t, next) ==
    /\ Len(process_queue) < MaxQueue
    /\ process_queue' = Append(process_queue, Pid)
    /\ Goto(t, next)
    /\ UNCHANGED <<status, status_lock, status_signaler, suspend_for_gc,
                   gc_state, gc_requests, locals>>

\* Thread::pop_process: queue.pop().unwrap() takes the last element
PopProcess(t, next) ==
    /\ process_queue # <<>>
    /\ process_queue' = SubSeq(process_queue, 1, Len(process_queue) - 1)
    /\ Goto(t, next)
    /\ UNCHANGED <<status, status_lock, status_signaler, suspend_for_gc,
                   gc_state, gc_requests, locals>>

(***************************************************************************)
(* The worker's run loop: pick a scheduled process, run it instruction by  *)
(* instruction with a safe point after each, leave it when it yields,      *)
(* returns, fails or is suspended for the collector.                       *)
(***************************************************************************)
WorkerPick ==
    /\ pc["worker"] = "idle"
    /\ PopProcess("worker", "running")

ExecInstruction ==
    /\ pc["worker"] = "exec"
    /\ Goto("worker", "safepoint")
    /\ UNCHANGED <<shared, locals>>

\* An allocation leaves the young block threshold exceeded or not.
ExecAllocate ==
    /\ pc["worker"] = "exec"
    /\ gc_requests < MaxRequests
    /\ \E exceeded \in BOOLEAN : young_exceeded' = exceeded
    /\ Jump("worker", "should_schedule_gc")
    /\ UNCHANGED <<shared, locals>>

ExecYield ==
    /\ pc["worker"] = "exec"
    /\ Goto("worker", "suspend")
    /\ UNCHANGED <<shared, locals>>

ExecReturn ==
    /\ pc["worker"] = "exec"
    /\ Goto("worker", "finished")
    /\ UNCHANGED <<shared, locals>>

ExecError ==
    /\ pc["worker"] = "exec"
    /\ Call("worker", "ss_lock", "Failed", "idle")
    /\ UNCHANGED shared

PostRequest ==
    /\ pc["worker"] = "post_request"
    /\ gc_requests < MaxRequests
    /\ gc_requests' = gc_requests + 1
    /\ Goto("worker", "safepoint")
    /\ UNCHANGED <<status, status_lock, status_signaler, suspend_for_gc,
                   gc_state, process_queue, locals>>

Reschedule ==
    /\ pc["worker"] = "reschedule"
    /\ Call("worker", "ss_lock", "Scheduled", "schedule")
    /\ UNCHANGED shared

WorkerSchedule ==
    /\ pc["worker"] = "schedule"
    /\ Schedule("worker", "idle")

(***************************************************************************)
(* GC-side methods of Process                                              *)
(***************************************************************************)
\* Process::request_gc_suspension: if !self.suspended_by_gc()
RequestGcSuspension(t) ==
    /\ pc[t] = "request_gc_suspension"
    /\ status_lock = "none"
    /\ IF status = "SuspendedByGc"
          THEN Goto(t, "wwr_lock")
          ELSE Goto(t, "rgs_set")
    /\ UNCHANGED <<shared, locals>>

\* self.local_data_mut().suspend_for_gc = true
RequestGcSuspensionSet(t) ==
    /\ pc[t] = "rgs_set"
    /\ suspend_for_gc' = TRUE
    /\ Goto(t, "wwr_lock")
    /\ UNCHANGED <<status, status_lock, status_signaler, gc_state,
                   process_queue, gc_requests, locals>>

\* Process::wait_while_running: let mut status = unlock!(self.status)
WaitWhileRunningLock(t) ==
    /\ pc[t] = "wwr_lock"
    /\ status_lock = "none"
    /\ status_lock' = t
    /\ Goto(t, "wwr_check")
    /\ UNCHANGED <<status, status_signaler, suspend_for_gc, gc_state,
                   process_queue, gc_requests, locals>>

\* while status.is_running() { status = self.status_signaler.wait(status) }
\* wait() releases the mutex and blocks; leaving the loop returns and drops
\* the guard.
WaitWhileRunning(t) ==
    /\ pc[t] = "wwr_check"
    /\ status_lock' = "none"
    /\ IF status = "Running"
          THEN /\ status_signaler' = status_signaler \cup {t}
               /\ Goto(t, "wwr_wait")
          ELSE /\ status_signaler' = status_signaler
               /\ Goto(t, "collect")
    /\ UNCHANGED <<status, suspend_for_gc, gc_state, process_queue,
                   gc_requests, locals>>

\* Variant: "if" instead of "while": a woken waiter returns without testing
\* the status again.
WaitWhileRunningWake_NoRetest(t) ==
    /\ pc[t] = "wwr_wait"
    /\ t \notin status_signaler
    /\ status_lock = "none"
    /\ Goto(t, "collect")
    /\ UNCHANGED <<shared, locals>>

\* A notified waiter takes the mutex again and re-tests the loop condition.
WaitWhileRunningWake(t) ==
    /\ pc[t] = "wwr_wait"
    /\ t \notin status_signaler
    /\ status_lock = "none"
    /\ status_lock' = t
    /\ Goto(t, "wwr_check")
    /\ UNCHANGED <<status, status_signaler, suspend_for_gc, gc_state,
                   process_queue, gc_requests, locals>>

\* Condvar::wait may return without a notification.
SpuriousWake(t) ==
    /\ pc[t] = "wwr_wait"
    /\ t \in status_signaler
    /\ status_signaler' = status_signaler \ {t}
    /\ UNCHANGED <<status, status_lock, suspend_for_gc, gc_state,
                   process_queue, gc_requests, pc, new_status, overwrite, ret,
                   young_exceeded, others>>

\* Process::reset_status: self.set_status(ProcessStatus::Scheduled)
ResetStatus(t) ==
    /\ pc[t] = "reset_status"
    /\ Call(t, "ss_lock", "Scheduled", "rs_gc_state")
    /\ UNCHANGED shared

\* ... self.set_gc_state(GcState::None)
ResetStatusGcState(t) ==
    /\ pc[t] = "rs_gc_state"
    /\ gc_state' = "None"
    /\ Goto(t, "put_back")
    /\ UNCHANGED <<status, status_lock, status_signaler, suspend_for_gc,
                   process_queue, gc_requests, locals>>

(***************************************************************************)
(* The GC thread's loop: dequeue a Request, suspend the process, collect,  *)
(* reset the status and put the process back on its worker.                *)
(***************************************************************************)
GcDequeue ==
    /\ pc["gc"] = "idle"
    /\ gc_requests > 0
    /\ gc_requests' = gc_requests - 1
    /\ Goto("gc", "request_gc_suspension")
    /\ UNCHANGED <<status, status_lock, status_signaler, suspend_for_gc,
                   gc_state, process_queue, locals>>

Collect ==
    /\ pc["gc"] = "collect"
    /\ Goto("gc", "reset_status")
    /\ UNCHANGED <<shared, locals>>

GcPutBack ==
    /\ pc["gc"] = "put_back"
    /\ Schedule("gc", "idle")

(***************************************************************************)
(* Specification                                                           *)
(***************************************************************************)
SetStatus(t) ==
    \/ SetStatusLock(t)
    \/ SetStatusWrite(t)
    \/ SetStatusNotify(t)
    \/ SetStatusUnlock(t)

SetStatusWithoutOverwritingGcStatus(t) ==
    \/ SwoLock(t)
    \/ SwoCheck(t)
    \/ SwoFlag(t)
    \/ SwoWriteGc(t)
    \/ SwoWriteNew(t)
    \/ SwoNotify(t)
    \/ SwoUnlock(t)

Worker ==
    \/ WorkerPick
    \/ Running("worker")
    \/ ExecInstruction
    \/ ExecAllocate
    \/ ExecYield
    \/ ExecReturn
    \/ ExecError
    \/ ShouldScheduleGc("worker")
    \/ GcScheduled("worker")
    \/ PostRequest
    \/ ShouldSuspendForGc("worker")
    \/ ShouldSuspendForGcFlag("worker")
    \/ SuspendForGc("worker")
    \/ Suspend("worker")
    \/ Finished("worker")
    \/ ShouldBeRescheduled("worker")
    \/ Reschedule
    \/ WorkerSchedule
    \/ SetStatus("worker")
    \/ SetStatusWithoutOverwritingGcStatus("worker")

Gc ==
    \/ GcDequeue
    \/ RequestGcSuspension("gc")
    \/ RequestGcSuspensionSet("gc")
    \/ WaitWhileRunningLock("gc")
    \/ WaitWhileRunning("gc")
    \/ WaitWhileRunningWake("gc")
    \/ SpuriousWake("gc")
    \/ Collect
    \/ ResetStatus("gc")
    \/ ResetStatusGcState("gc")
    \/ GcPutBack
    \/ SetStatus("gc")

Next == Worker \/ Gc

Spec == Init /\ [][Next]_vars

TypeOK ==
    /\ status \in ProcessStatus
    /\ status_lock \in Threads \cup {"none"}
    /\ status_signaler \subseteq Threads
    /\ suspend_for_gc \in BOOLEAN
    /\ gc_state \in GcState
    /\ Len(process_queue) <= MaxQueue
    /\ gc_requests \in 0..MaxRequests
    /\ overwrite \in [Threads -> BOOLEAN]
    /\ new_status \in [Threads -> ProcessStatus]
    /\ young_exceeded \in BOOLEAN

(***************************************************************************)
(* A second specification: the worker thread as an arbitrary client of the *)
(* public status methods of Process, calling them in any order and with    *)
(* any argument while the GC thread runs its loop.                         *)
(***************************************************************************)
\* The worker is between two calls.
AtRest == pc["worker"] \in {"idle", "exec"}

ClientCall ==
    /\ AtRest
    /\ \E m \in {"running", "suspend", "finished", "suspend_for_gc"} :
          Goto("worker", m)
    /\ UNCHANGED <<shared, locals>>

ClientSetStatus ==
    /\ AtRest
    /\ \E s \in ProcessStatus : Call("worker", "ss_lock", s, "idle")
    /\ UNCHANGED shared

ClientSetStatusWithoutOverwritingGcStatus ==
    /\ AtRest
    /\ \E s \in ProcessStatus : Call("worker", "swo_lock", s, "idle")
    /\ UNCHANGED shared

ClientRequest ==
    /\ gc_requests < MaxRequests
    /\ gc_requests' = gc_requests + 1
    /\ UNCHANGED <<status, status_lock, status_signaler, suspend_for_gc,
                   gc_state, process_queue, pc, locals, young_exceeded,
                   others>>

NextApi ==
    \/ ClientCall
    \/ ClientSetStatus
    \/ ClientSetStatusWithoutOverwritingGcStatus
    \/ ClientRequest
    \/ WorkerPick
    \/ Running("worker")
    \/ Suspend("worker")
    \/ Finished("worker")
    \/ SuspendForGc("worker")
    \/ SetStatus("worker")
    \/ SetStatusWithoutOverwritingGcStatus("worker")
    \/ Gc

SpecApi == Init /\ [][NextApi]_vars

(***************************************************************************)
(* Fair scheduling of the two threads: a thread that can take a step       *)
(* infinitely often (in particular, finds the status mutex free infinitely *)
(* often) eventually takes it.  A wait() that returns without having been  *)
(* notified is allowed but never required.                                 *)
(***************************************************************************)
GcFair == Gc /\ ~SpuriousWake("gc")

FairSpec == Spec /\ SF_vars(Worker) /\ SF_vars(GcFair)

(***************************************************************************)
(* Object pointers.  A pointer is an address tagged with the space it      *)
(* points into; the classification is read off the tag.                    *)
(***************************************************************************)
ObjectPointer ==
    [space : {"young", "mature", "permanent"}, addr : {1, 2}]

is_young(pointer) == pointer.space = "young"

is_mature(pointer) == pointer.space = "mature"

is_permanent(pointer) == pointer.space = "permanent"

is_local(pointer) == is_young(pointer) \/ is_mature(pointer)

\* The status machine's part of the state.
process_vars == <<shared, pc, locals, young_exceeded>>

not_barrier == <<process_vars, mailbox_vars, parent_vars, roots_vars,
                 thread_vars,
                 register_vars,
                 parser_vars,
                 iter_vars,
                 steal_vars,
    stack_vars>>

not_mailbox == <<process_vars, barrier_vars, parent_vars, roots_vars,
                 thread_vars,
                 register_vars,
                 parser_vars,
                 iter_vars,
                 steal_vars,
    stack_vars>>

not_parent == <<process_vars, barrier_vars, mailbox_vars, roots_vars,
                thread_vars,
                register_vars,
                parser_vars,
                iter_vars,
                steal_vars,
    stack_vars>>

not_roots == <<process_vars, barrier_vars, mailbox_vars, parent_vars,
               thread_vars,
               parser_vars,
               iter_vars,
               steal_vars,
    stack_vars>>

not_parser == <<process_vars, barrier_vars, mailbox_vars, parent_vars,
                roots_vars, thread_vars, register_vars,
                iter_vars,
                steal_vars,
    stack_vars>>

not_iter == <<process_vars, barrier_vars, mailbox_vars, parent_vars,
              roots_vars, thread_vars, register_vars, parser_vars,
              steal_vars,
    stack_vars>>

not_steal == <<process_vars, barrier_vars, mailbox_vars, parent_vars,
               thread_vars, register_vars, parser_vars, iter_vars,
    stack_vars>>

not_stack == <<process_vars, barrier_vars, mailbox_vars, parent_vars,
               roots_vars, thread_vars, register_vars, parser_vars, iter_vars,
               steal_vars>>

not_thread == <<status, status_lock, status_signaler, suspend_for_gc,
                gc_state, gc_requests, pc, locals, young_exceeded,
                barrier_vars, mailbox_vars, parent_vars, roots_vars,
                register_vars,
                parser_vars,
                iter_vars,
                steal_vars,
    stack_vars>>

(***************************************************************************)
(* Process::write_barrier and the remembered set                           *)
(***************************************************************************)
\* Variant: the written pointer is remembered.
WriteBarrier_RemembersWritten(written_to, written) ==
    /\ Cardinality(writes \cup {<<written_to, written>>}) <= MaxWrites
    /\ remembered_set' =
          IF is_mature(written_to) /\ is_young(written)
             THEN remembered_set \cup {written}
             ELSE remembered_set
    /\ writes' = writes \cup {<<written_to, written>>}
    /\ UNCHANGED not_barrier

WriteBarrier(written_to, written) ==
    /\ Cardinality(writes \cup {<<written_to, written>>}) <= MaxWrites
    /\ remembered_set' =
          IF is_mature(written_to) /\ is_young(written)
             THEN remembered_set \cup {written_to}
             ELSE remembered_set
    /\ writes' = writes \cup {<<written_to, written>>}
    /\ UNCHANGED not_barrier

NextBarrier ==
    \E written_to \in ObjectPointer, written \in ObjectPointer :
        WriteBarrier(written_to, written)

SpecBarrier == Init /\ [][NextBarrier]_vars

(***************************************************************************)
(* Messaging: Process::send_message called by the producers and            *)
(* Process::receive_message called by the process that owns the mailbox.   *)
(***************************************************************************)
\* The messages the producers send: one pointer of every classification.
Messages == {m \in ObjectPointer : m.addr = 1}

\* copy_object of the mailbox allocator: the copy is a new object of the
\* receiver's mailbox heap.
copy_object(top) == [space |-> "mailbox", addr |-> top + 1]

\* Queue::push: the element becomes the newest of the queue.
QueuePush(queue, value) == Append(queue, value)

\* let mut to_send = message; if to_send.is_local() ...
SendMessage(p, message) ==
    /\ sender[p].pc = "idle"
    /\ sender[p].sent < MaxSend
    /\ sender' = [sender EXCEPT ![p] =
                     [@ EXCEPT !.message = message, !.to_send = message,
                               !.pc = IF is_local(message)
                                         THEN "lock" ELSE "push"]]
    /\ UNCHANGED <<mailbox, mailbox_allocator, mailbox_top, pushed,
                   received, last, not_mailbox>>

\* unlock!(self.mailbox_allocator)
SendLock(p) ==
    /\ sender[p].pc = "lock"
    /\ mailbox_allocator = "none"
    /\ mailbox_allocator' = p
    /\ sender' = [sender EXCEPT ![p].pc = "copy"]
    /\ UNCHANGED <<mailbox, mailbox_top, pushed, received, last,
                   not_mailbox>>

\* to_send = ....copy_object(to_send); the guard is dropped
SendCopy(p) ==
    /\ sender[p].pc = "copy"
    /\ mailbox_top' = mailbox_top + 1
    /\ mailbox_allocator' = "none"
    /\ sender' = [sender EXCEPT ![p] =
                     [@ EXCEPT !.to_send = copy_object(mailbox_top),
                               !.pc = "push"]]
    /\ UNCHANGED <<mailbox, pushed, received, last, not_mailbox>>

\* Variant: the message is pushed as it was passed.
SendPush_Uncopied(p) ==
    /\ sender[p].pc = "push"
    /\ mailbox' = QueuePush(mailbox, sender[p].message)
    /\ pushed' = Append(pushed, <<p, sender[p].sent + 1, sender[p].message>>)
    /\ sender' = [sender EXCEPT ![p] =
                     [@ EXCEPT !.sent = @ + 1, !.pc = "idle"]]
    /\ UNCHANGED <<mailbox_allocator, mailbox_top, received, last,
                   not_mailbox>>

\* self.mailbox.push(to_send)
SendPush(p) ==
    /\ sender[p].pc = "push"
    /\ mailbox' = QueuePush(mailbox, sender[p].to_send)
    /\ pushed' = Append(pushed, <<p, sender[p].sent + 1, sender[p].to_send>>)
    /\ sender' = [sender EXCEPT ![p] =
                     [@ EXCEPT !.sent = @ + 1, !.pc = "idle"]]
    /\ UNCHANGED <<mailbox_allocator, mailbox_top, received, last,
                   not_mailbox>>

\* Variant: the newest message is taken.
ReceiveMessage_TakesNewest ==
    /\ IF mailbox = <<>>
          THEN /\ last' = None
               /\ UNCHANGED <<mailbox, received>>
          ELSE /\ last' = Some(mailbox[Len(mailbox)])
               /\ received' = Append(received, mailbox[Len(mailbox)])
               /\ mailbox' = SubSeq(mailbox, 1, Len(mailbox) - 1)
    /\ UNCHANGED <<mailbox_allocator, mailbox_top, sender, pushed,
                   not_mailbox>>

\* Process::receive_message: self.mailbox.pop_nonblock()
ReceiveMessage ==
    /\ IF mailbox = <<>>
          THEN /\ last' = None
               /\ UNCHANGED <<mailbox, received>>
          ELSE /\ last' = Some(Head(mailbox))
               /\ received' = Append(received, Head(mailbox))
               /\ mailbox' = Tail(mailbox)
    /\ UNCHANGED <<mailbox_allocator, mailbox_top, sender, pushed,
                   not_mailbox>>

NextMailbox ==
    \/ \E p \in Producers, message \in Messages : SendMessage(p, message)
    \/ \E p \in Producers : SendLock(p)
    \/ \E p \in Producers : SendCopy(p)
    \/ \E p \in Producers : SendPush(p)
    \/ ReceiveMessage

SpecMailbox == Init /\ [][NextMailbox]_vars

(***************************************************************************)
(* ExecutionContext::find_parent (vm/src/execution_context.rs).  A context *)
(* owns its parent, so a context is written as the sequence of itself and  *)
(* its ancestors, nearest first.                                           *)
(***************************************************************************)
\* usize::MAX, cut to the largest integer of the model checker: the loop of
\* find_parent leaves at the end of the chain long before.
UsizeMax == 2147483647

\* ExecutionContext::new(binding, code, return_register)
NewContext(return_register) == [return_register |-> return_register]

\* ExecutionContext::parent
parent(ctx) == IF Len(ctx) >= 2 THEN Some(Tail(ctx)) ELSE None

\* for _ in 0..n { if let Some(unwrapped) = found { found =
\* unwrapped.parent() } else { return None } } found
RECURSIVE FindParentLoop(_, _)
FindParentLoop(found, n) ==
    IF n = 0 THEN found
    ELSE IF found # None THEN FindParentLoop(parent(found[1]), n - 1)
    ELSE None

\* The outcomes of depth - 1 on the unsigned depth: the difference, or for
\* depth = 0 a panic (overflow checks on) or usize::MAX (overflow checks
\* off).
DepthMinusOne(depth) ==
    IF depth >= 1 THEN {[panicked |-> FALSE, n |-> depth - 1]}
    ELSE {[panicked |-> TRUE, n |-> 0], [panicked |-> FALSE, n |-> UsizeMax]}

\* Variant: the loop runs depth times.
FindParent_DepthIterations(ctx, depth) ==
    {[called |-> TRUE, depth |-> depth, panicked |-> FALSE,
      found |-> FindParentLoop(parent(ctx), depth)]}

\* Variant: the walk starts at the context itself.
FindParent_StartsAtSelf(ctx, depth) ==
    {[called |-> TRUE, depth |-> depth, panicked |-> d.panicked,
      found |-> IF d.panicked THEN None
                ELSE FindParentLoop(Some(ctx), d.n)] :
        d \in DepthMinusOne(depth)}

\* ExecutionContext::find_parent: the outcomes of the call.
FindParent(ctx, depth) ==
    {[called |-> TRUE, depth |-> depth, panicked |-> d.panicked,
      found |-> IF d.panicked THEN None
                ELSE FindParentLoop(parent(ctx), d.n)] :
        d \in DepthMinusOne(depth)}

\* context.set_parent(Box::new(chain)) on a new context
SetParent(return_register) ==
    /\ Len(chain) < MaxChain
    /\ chain' = <<NewContext(return_register)>> \o chain
    /\ call' = [called |-> FALSE, depth |-> 0, found |-> None,
                panicked |-> FALSE]
    /\ UNCHANGED not_parent

\* The chain is dropped and a new context without parent is made.
DropChain(return_register) ==
    /\ Len(chain) > 1
    /\ chain' = <<NewContext(return_register)>>
    /\ call' = [called |-> FALSE, depth |-> 0, found |-> None,
                panicked |-> FALSE]
    /\ UNCHANGED not_parent

CallFindParent(depth) ==
    /\ call' \in FindParent(chain, depth)
    /\ UNCHANGED <<chain, not_parent>>

NextFindParent ==
    \/ \E r \in {None, Some(4)} : SetParent(r)
    \/ \E r \in {None, Some(4)} : DropChain(r)
    \/ \E depth \in 0..MaxDepth : CallFindParent(depth)

SpecFindParent == Init /\ [][NextFindParent]_vars

(***************************************************************************)
(* ExecutionContext::contexts and the iterator it returns.  The iterator   *)
(* borrows the context: the chain does not change while it exists.         *)
(***************************************************************************)
\* contexts(): ExecutionContextIterator { current: Some(self) }
Contexts ==
    /\ iterator = None
    /\ iterator' = Some([current |-> Some(chain)])
    /\ yielded' = <<>>
    /\ UNCHANGED not_iter

\* Variant: at the root the iterator stays where it is.
IteratorNext_StaysAtRoot ==
    /\ iterator # None
    /\ Len(yielded) < MaxChain + 2
    /\ IF iterator[1].current # None
          THEN /\ iterator' =
                     Some([current |->
                              IF parent(iterator[1].current[1]) # None
                                 THEN parent(iterator[1].current[1])
                                 ELSE iterator[1].current])
               /\ yielded' = Append(yielded, iterator[1].current)
          ELSE /\ yielded' = Append(yielded, None)
               /\ UNCHANGED iterator
    /\ UNCHANGED not_iter

\* Iterator::next: if let Some(ctx) = self.current { self.current = the
\* parent of ctx, or None; return Some(ctx) }; None
IteratorNext ==
    /\ iterator # None
    /\ Len(yielded) < MaxChain + 2
    /\ IF iterator[1].current # None
          THEN /\ iterator' =
                     Some([current |->
                              IF parent(iterator[1].current[1]) # None
                                 THEN Some(parent(iterator[1].current[1])[1])
                                 ELSE None])
               /\ yielded' = Append(yielded, iterator[1].current)
          ELSE /\ yielded' = Append(yielded, None)
               /\ UNCHANGED iterator
    /\ UNCHANGED not_iter

\* The iterator is dropped.
DropIterator ==
    /\ iterator # None
    /\ iterator' = None
    /\ yielded' = <<>>
    /\ UNCHANGED not_iter

\* A chain is built while no iterator borrows it, and walked.
NextContexts ==
    \/ iterator = None /\ \E r \in {None, Some(4)} : SetParent(r)
    \/ iterator = None /\ \E r \in {None, Some(4)} : DropChain(r)
    \/ Contexts
    \/ IteratorNext
    \/ DropIterator

SpecContexts == Init /\ [][NextContexts]_vars

(***************************************************************************)
(* The context stack of the process and Process::roots.  A slot handle     *)
(* (ObjectPointerPointer) names the slot it points at: the context, the    *)
(* kind of slot and its index.                                             *)
(***************************************************************************)
\* The addresses of the objects the process has allocated.
Allocated == {8}

\* The address the collector writes through a handle (0x4 in the tests).
NewAddress == 4

SlotPointer(i, kind, index) == [context |-> i, kind |-> kind, index |-> index]

\* The indices in a set of naturals, in increasing order.
RECURSIVE Ascending(_)
Ascending(indices) ==
    IF indices = {} THEN <<>>
    ELSE LET least == CHOOSE i \in indices : \A j \in indices : i <= j
         IN  <<least>> \o Ascending(indices \ {least})

\* Binding::push_pointers of context i: a handle for every local that is
\* set and one for self.
BindingPushPointers(contexts, i) ==
    [j \in DOMAIN Ascending({l \in Locals : contexts[i].locals[l] # None}) |->
        SlotPointer(i, "local",
                    Ascending({l \in Locals : contexts[i].locals[l] # None})[j])]
    \o <<SlotPointer(i, "self_object", 0)>>

\* Register::push_pointers of context i: a handle for every register that
\* is set.
RegisterPushPointers(contexts, i) ==
    [j \in DOMAIN Ascending({r \in Registers : contexts[i].register[r] # None})
        |-> SlotPointer(i, "register",
               Ascending({r \in Registers : contexts[i].register[r] # None})[j])]

\* context.binding.push_pointers(&mut pointers);
\* context.register.push_pointers(&mut pointers); for the contexts taken by
\* one thread, in the order it took them.
RECURSIVE PushPointers(_, _)
PushPointers(contexts, taken) ==
    IF taken = <<>> THEN <<>>
    ELSE BindingPushPointers(contexts, Head(taken))
         \o RegisterPushPointers(contexts, Head(taken))
         \o PushPointers(contexts, Tail(taken))

\* The results roots() can return.  The contexts are pushed on the deque
\* from the current one upwards; the stealers take from the old end, the
\* calling thread pops from the new end; every context is taken once.  The
\* result is what the calling thread collected followed by what each of
\* the thread_count stealers collected.
RootsResults(contexts) ==
    {PushPointers(contexts,
                  [j \in 1..(Len(contexts) - stolen) |-> Len(contexts) + 1 - j])
     \o PushPointers(contexts, Ascending({i \in 1..stolen : thief[i] = 1}))
     \o PushPointers(contexts, Ascending({i \in 1..stolen : thief[i] = 2}))
     \o PushPointers(contexts, Ascending({i \in 1..stolen : thief[i] = 3})) :
        <<stolen, thief>> \in
            UNION {{<<k, f>> : f \in [1..k -> 1..thread_count]} :
                      k \in 0..Len(contexts)}}

\* Writing an address through a slot handle.
Store(contexts, handle, address) ==
    IF handle.context \notin DOMAIN contexts THEN contexts
    ELSE IF handle.kind = "local"
       THEN [contexts EXCEPT ![handle.context].locals[handle.index] =
                                 Some(address)]
    ELSE IF handle.kind = "register"
       THEN [contexts EXCEPT ![handle.context].register[handle.index] =
                                 Some(address)]
    ELSE [contexts EXCEPT ![handle.context].self_object = address]

RECURSIVE StoreAll(_, _, _)
StoreAll(contexts, handles, address) ==
    IF handles = <<>> THEN contexts
    ELSE StoreAll(Store(contexts, Head(handles), address), Tail(handles),
                  address)

\* Process::get_local, get_register_option and self_object read the current
\* context.
get_local(index) == context[1].locals[index]

get_register_option(register) == context[1].register[register]

self_object == context[1].self_object

\* Process::push_context: the new context becomes the current one, the old
\* current one its parent.
PushContext ==
    /\ Len(context) < MaxContexts
    /\ context' = <<WithObject(Null)>> \o context
    /\ pointers' = <<>>
    /\ rewritten' = FALSE
    /\ last_set' = <<[register \in Registers |-> None]>> \o last_set
    /\ got' = None
    /\ UNCHANGED not_roots

\* Process::at_top_level
at_top_level == Len(context) = 1

\* Variant: pop_context takes the parent without looking for one.
PopContext_Unchecked ==
    /\ pointers' = <<>>
    /\ rewritten' = FALSE
    /\ context' = Tail(context)
    /\ last_set' = Tail(last_set)
    /\ got' = None
    /\ UNCHANGED not_roots

\* Process::pop_context: nothing happens without a parent.
PopContext ==
    /\ pointers' = <<>>
    /\ rewritten' = FALSE
    /\ IF Len(context) = 1
          THEN UNCHANGED <<context, last_set>>
          ELSE context' = Tail(context) /\ last_set' = Tail(last_set)
    /\ got' = None
    /\ UNCHANGED not_roots

\* Process::set_local
SetLocal(index, value) ==
    /\ context' = [context EXCEPT ![1].locals[index] = Some(value)]
    /\ pointers' = <<>>
    /\ rewritten' = FALSE
    /\ got' = None
    /\ UNCHANGED <<last_set, not_roots>>

\* Process::set_instruction_index
SetInstructionIndex(index) ==
    /\ context' = [context EXCEPT ![1].instruction_index = index]
    /\ pointers' = <<>>
    /\ rewritten' = FALSE
    /\ got' = None
    /\ UNCHANGED <<last_set, not_roots>>

\* Process::set_register
SetRegister(register, value) ==
    /\ context' = [context EXCEPT ![1].register[register] = Some(value)]
    /\ pointers' = <<>>
    /\ rewritten' = FALSE
    /\ last_set' = [last_set EXCEPT ![1][register] = Some(value)]
    /\ got' = None
    /\ UNCHANGED not_roots

\* Result: Ok(value), and Err(error)
Ok(value) == [ok |-> TRUE, value |-> <<value>>, error |-> <<>>]

Err(error) == [ok |-> FALSE, value |-> <<>>, error |-> <<error>>]

\* Option::ok_or_else
OkOrElse(option, error) == IF option = None THEN Err(error) ELSE Ok(option[1])

\* format!("Undefined object in register {}", register)
UndefinedObject(register) == <<"Undefined object in register", register>>

\* Variant: an unset register reads as the null pointer.
GetRegister_NullWhenUnset(register) ==
    /\ got' = Some([register |-> register,
                    result |-> IF get_register_option(register) = None
                                  THEN Ok(Null)
                                  ELSE Ok(get_register_option(register)[1])])
    /\ UNCHANGED <<last_set, roots_vars, not_roots>>

\* Process::get_register
GetRegister(register) ==
    /\ got' = Some([register |-> register,
                    result |-> OkOrElse(get_register_option(register),
                                        UndefinedObject(register))])
    /\ UNCHANGED <<last_set, roots_vars, not_roots>>

\* Variant: only the current context is scanned.
Roots_CurrentContextOnly ==
    /\ pointers' \in RootsResults(<<context[1]>>)
    /\ rewritten' = FALSE
    /\ UNCHANGED <<context, register_vars, not_roots>>

\* Variant: the handles point at copies of the slots.
Roots_Copies ==
    /\ pointers' \in {[j \in DOMAIN result |->
                          [result[j] EXCEPT !.context = 0]] :
                          result \in RootsResults(context)}
    /\ rewritten' = FALSE
    /\ UNCHANGED <<context, register_vars, not_roots>>

\* Process::roots
Roots ==
    /\ pointers' \in RootsResults(context)
    /\ rewritten' = FALSE
    /\ UNCHANGED <<context, register_vars, not_roots>>

\* for pointer_pointer in process.roots() { pointer_pointer.get_mut().raw.raw
\* = 0x4 }
WriteThrough ==
    /\ pointers # <<>>
    /\ ~rewritten
    /\ context' = StoreAll(context, pointers, NewAddress)
    /\ rewritten' = TRUE
    /\ got' = None
    /\ UNCHANGED <<pointers, last_set, not_roots>>

NextRoots ==
    \/ PushContext
    \/ PopContext
    \/ \E index \in Locals, value \in Allocated : SetLocal(index, value)
    \/ \E register \in Registers, value \in Allocated :
          SetRegister(register, value)
    \/ Roots
    \/ WriteThrough

SpecRoots == Init /\ [][NextRoots]_vars

\* The pointers an interpreter keeps in its registers.
RegisterValues == Allocated \cup {NewAddress}

\* The register file of the current context as the interpreter uses it:
\* contexts are pushed and popped, registers are set and read.
NextRegisters ==
    \/ PushContext
    \/ PopContext
    \/ \E register \in Registers, value \in RegisterValues :
          SetRegister(register, value)
    \/ \E register \in Registers : GetRegister(register)

SpecRegisters == Init /\ [][NextRegisters]_vars

(***************************************************************************)
(* Process::roots step by step: the calling thread fills the deque, spawns *)
(* thread_count threads that steal from it, pops from it itself until it   *)
(* is empty and joins the threads.  worker.push and worker.try_pop work at *)
(* the new end of the deque, steal() at the old end; each of them is one   *)
(* step, and a steal() that has to be retried changes nothing.             *)
(***************************************************************************)
\* for context in self.context().contexts() { worker.push(..) }: the
\* current context is pushed first.
RootsPush ==
    /\ rpc[Caller] = "idle"
    /\ deque' = [i \in 1..Len(context) |-> i]
    /\ rpc' = [rpc EXCEPT ![Caller] = "spawn"]
    /\ local_pointers' = [t \in {Caller} \cup Stealers |-> <<>>]
    /\ scanned' = [t \in {Caller} \cup Stealers |-> <<>>]
    /\ UNCHANGED <<roots_vars, not_steal>>

\* threads.push(thread::spawn(..)), for the next of the thread_count threads
RootsSpawn(t) ==
    /\ rpc[Caller] = "spawn"
    /\ rpc[t] = "unspawned"
    /\ \A u \in Stealers : u < t => rpc[u] # "unspawned"
    /\ rpc' = [rpc EXCEPT ![t] = "steal",
                          ![Caller] = IF t = thread_count THEN "try_pop"
                                      ELSE "spawn"]
    /\ UNCHANGED <<deque, local_pointers, scanned, roots_vars, not_steal>>

\* loop { match t_stealer.steal() { Steal::Data(ctx) => push_pointers of
\* the context, Steal::Empty => break } }; the thread returns its pointers
RootsSteal(t) ==
    /\ rpc[t] = "steal"
    /\ IF deque = <<>>
          THEN /\ rpc' = [rpc EXCEPT ![t] = "finished"]
               /\ UNCHANGED <<deque, local_pointers, scanned>>
          ELSE /\ deque' = Tail(deque)
               /\ local_pointers' =
                     [local_pointers EXCEPT
                         ![t] = @ \o PushPointers(context, <<Head(deque)>>)]
               /\ scanned' = [scanned EXCEPT ![t] = Append(@, Head(deque))]
               /\ UNCHANGED rpc
    /\ UNCHANGED <<roots_vars, not_steal>>

\* while let Some(ctx) = worker.try_pop() { push_pointers of the context }
RootsTryPop ==
    /\ rpc[Caller] = "try_pop"
    /\ IF deque = <<>>
          THEN /\ rpc' = [rpc EXCEPT ![Caller] = "join"]
               /\ UNCHANGED <<deque, local_pointers, scanned>>
          ELSE /\ deque' = SubSeq(deque, 1, Len(deque) - 1)
               /\ local_pointers' =
                     [local_pointers EXCEPT
                         ![Caller] =
                            @ \o PushPointers(context, <<deque[Len(deque)]>>)]
               /\ scanned' =
                     [scanned EXCEPT
                         ![Caller] = Append(@, deque[Len(deque)])]
               /\ UNCHANGED rpc
    /\ UNCHANGED <<roots_vars, not_steal>>

\* Variant: the threads are joined and their pointers are dropped.
RootsJoin_DropsPointers(t) ==
    /\ rpc[Caller] = "join"
    /\ rpc[t] = "finished"
    /\ \A u \in Stealers : u < t => rpc[u] = "joined"
    /\ rpc' = [rpc EXCEPT ![t] = "joined",
                          ![Caller] = IF t = thread_count THEN "return"
                                      ELSE "join"]
    /\ UNCHANGED <<deque, local_pointers, scanned, roots_vars, not_steal>>

\* for thread in threads { pointers.append(&mut thread.join().unwrap()) }:
\* join waits until the thread has returned.
RootsJoin(t) ==
    /\ rpc[Caller] = "join"
    /\ rpc[t] = "finished"
    /\ \A u \in Stealers : u < t => rpc[u] = "joined"
    /\ local_pointers' =
          [local_pointers EXCEPT ![Caller] = @ \o local_pointers[t]]
    /\ rpc' = [rpc EXCEPT ![t] = "joined",
                          ![Caller] = IF t = thread_count THEN "return"
                                      ELSE "join"]
    /\ UNCHANGED <<deque, scanned, roots_vars, not_steal>>

\* roots() returns its pointers.
RootsReturn ==
    /\ rpc[Caller] = "return"
    /\ pointers' = local_pointers[Caller]
    /\ rewritten' = FALSE
    /\ rpc' = [rpc EXCEPT ![Caller] = "returned"]
    /\ UNCHANGED <<context, deque, local_pointers, scanned, not_steal>>

\* The caller is done with the result; the process runs on.
RootsDone ==
    /\ rpc[Caller] = "returned"
    /\ rpc' = [t \in {Caller} \cup Stealers |->
                  IF t = Caller THEN "idle" ELSE "unspawned"]
    /\ UNCHANGED <<deque, local_pointers, scanned, roots_vars, not_steal>>

\* The process changes its contexts while no roots() call is under way (the
\* collector calls roots() on a suspended process).
NextRootsParallel ==
    \/ rpc[Caller] = "idle" /\ PushContext
    \/ rpc[Caller] = "idle" /\ PopContext
    \/ rpc[Caller] = "idle"
          /\ \E index \in Locals, value \in Allocated : SetLocal(index, value)
    \/ rpc[Caller] = "idle"
          /\ \E register \in Registers, value \in Allocated :
                SetRegister(register, value)
    \/ RootsPush
    \/ \E t \in Stealers : RootsSpawn(t)
    \/ \E t \in Stealers : RootsSteal(t)
    \/ RootsTryPop
    \/ \E t \in Stealers : RootsJoin(t)
    \/ RootsReturn
    \/ RootsDone

SpecRootsParallel == Init /\ [][NextRootsParallel]_vars

(***************************************************************************)
(* The interpreter's calls on the context stack, one at a time: it calls a *)
(* method of Process, and the method runs on the stack it was called on.   *)
(***************************************************************************)
StackCalls ==
    {"push_context", "pop_context", "set_register", "set_local",
     "set_instruction_index"}

\* The values set_instruction_index is given.
InstructionIndices == {0, 1}

\* The interpreter comes to a call of one of the methods.
StackCall(method) ==
    /\ stack_call' = method
    /\ stack_entry' = context
    /\ UNCHANGED not_stack

\* The method that was called runs, once.
NextStack ==
    \/ \E method \in StackCalls : StackCall(method)
    \/ stack_call = "push_context" /\ context = stack_entry /\ PushContext
    \/ stack_call = "pop_context" /\ context = stack_entry /\ PopContext
    \/ /\ stack_call = "set_register"
       /\ context = stack_entry
       /\ \E register \in Registers, value \in Allocated :
             SetRegister(register, value)
    \/ /\ stack_call = "set_local"
       /\ context = stack_entry
       /\ \E index \in Locals, value \in Allocated : SetLocal(index, value)
    \/ /\ stack_call = "set_instruction_index"
       /\ context = stack_entry
       /\ \E index \in InstructionIndices : SetInstructionIndex(index)

SpecStack == Init /\ [][NextStack]_vars

(***************************************************************************)
(* Thread (vm/src/thread.rs) with its mutexes and its condvar.  A method   *)
(* is split at each lock it takes; what it does while it holds the locks   *)
(* of everything it touches is one step, which ends with the release.      *)
(***************************************************************************)
\* The calls counted by a record of calls per process.
RECURSIVE CallsOf(_, _)
CallsOf(count, tasks) ==
    IF tasks = {} THEN 0
    ELSE LET task == CHOOSE task \in tasks : TRUE
         IN  count[task] + CallsOf(count, tasks \ {task})

Calls(count) == CallsOf(count, Tasks)

\* The record of the calls so far.
calls == <<schedules, pops>>

TGoto(c, p) == tpc' = [tpc EXCEPT ![c] = p]

\* Thread::schedule: let mut queue = self.process_queue.lock().unwrap()
ScheduleLockQueue(c) ==
    /\ tpc[c] = "idle"
    /\ Len(process_queue) < MaxQueue
    /\ Calls(schedules) + Cardinality({s \in Schedulers : tpc[s] # "idle"})
          < MaxSchedules
    /\ queue_lock = "none"
    /\ queue_lock' = c
    /\ TGoto(c, "schedule_lock_wake_up")
    /\ UNCHANGED <<process_queue, wake_up, should_stop, wake_up_lock,
                   should_stop_lock, wakeup_signaler, popped,
                   calls, not_thread>>

\* ... let mut wake_up = self.wake_up.lock().unwrap()
ScheduleLockWakeUp(c) ==
    /\ tpc[c] = "schedule_lock_wake_up"
    /\ wake_up_lock = "none"
    /\ wake_up_lock' = c
    /\ TGoto(c, "schedule_push")
    /\ UNCHANGED <<process_queue, wake_up, should_stop, queue_lock,
                   should_stop_lock, wakeup_signaler, popped,
                   calls, not_thread>>

\* Variant: schedule pushes only on an empty queue.
SchedulePush_OnlyWhenEmpty(c, task) ==
    /\ tpc[c] = "schedule_push"
    /\ process_queue' = IF process_queue = <<>> THEN <<task>>
                        ELSE process_queue
    /\ wake_up' = TRUE
    /\ wakeup_signaler' = {}
    /\ wake_up_lock' = "none"
    /\ queue_lock' = "none"
    /\ schedules' = [schedules EXCEPT ![task] = @ + 1]
    /\ TGoto(c, "idle")
    /\ UNCHANGED <<should_stop, should_stop_lock, popped, pops, not_thread>>

\* Variant: schedule pushes and sets the flag but does not notify.
SchedulePush_NoNotify(c, task) ==
    /\ tpc[c] = "schedule_push"
    /\ process_queue' = Append(process_queue, task)
    /\ wake_up' = TRUE
    /\ wake_up_lock' = "none"
    /\ queue_lock' = "none"
    /\ schedules' = [schedules EXCEPT ![task] = @ + 1]
    /\ TGoto(c, "idle")
    /\ UNCHANGED <<should_stop, should_stop_lock, wakeup_signaler, popped,
                   pops, not_thread>>

\* ... queue.push(task); *wake_up = true; notify_all(); the guards drop
SchedulePush(c, task) ==
    /\ tpc[c] = "schedule_push"
    /\ process_queue' = Append(process_queue, task)
    /\ wake_up' = TRUE
    /\ wakeup_signaler' = {}
    /\ wake_up_lock' = "none"
    /\ queue_lock' = "none"
    /\ schedules' = [schedules EXCEPT ![task] = @ + 1]
    /\ TGoto(c, "idle")
    /\ UNCHANGED <<should_stop, should_stop_lock, popped, pops, not_thread>>

\* Thread::stop: let mut stop = self.should_stop.lock().unwrap()
StopLockShouldStop ==
    /\ tpc[Stopper] = "idle"
    /\ should_stop_lock = "none"
    /\ should_stop_lock' = Stopper
    /\ TGoto(Stopper, "stop_lock_wake_up")
    /\ UNCHANGED <<process_queue, wake_up, should_stop, queue_lock,
                   wake_up_lock, wakeup_signaler, popped, calls, not_thread>>

\* ... let mut wake_up = self.wake_up.lock().unwrap()
StopLockWakeUp ==
    /\ tpc[Stopper] = "stop_lock_wake_up"
    /\ wake_up_lock = "none"
    /\ wake_up_lock' = Stopper
    /\ TGoto(Stopper, "stop_set")
    /\ UNCHANGED <<process_queue, wake_up, should_stop, queue_lock,
                   should_stop_lock, wakeup_signaler, popped,
                   calls, not_thread>>

\* Variant: stop wakes the waiters without setting should_stop.
StopSet_OnlyWakeUp ==
    /\ tpc[Stopper] = "stop_set"
    /\ wake_up' = TRUE
    /\ wakeup_signaler' = {}
    /\ wake_up_lock' = "none"
    /\ should_stop_lock' = "none"
    /\ TGoto(Stopper, "stopped")
    /\ UNCHANGED <<process_queue, should_stop, queue_lock, popped, calls,
                   not_thread>>

\* ... *stop = true; *wake_up = true; notify_all(); the guards drop
StopSet ==
    /\ tpc[Stopper] = "stop_set"
    /\ should_stop' = TRUE
    /\ wake_up' = TRUE
    /\ wakeup_signaler' = {}
    /\ wake_up_lock' = "none"
    /\ should_stop_lock' = "none"
    /\ TGoto(Stopper, "stopped")
    /\ UNCHANGED <<process_queue, queue_lock, popped, calls, not_thread>>

\* Thread::wait_for_work: if self.should_stop() { return; }
WaitForWorkShouldStop ==
    /\ tpc[Consumer] = "idle"
    /\ should_stop_lock = "none"
    /\ IF should_stop
          THEN TGoto(Consumer, "returned")
          ELSE TGoto(Consumer, "wait_for_work_size")
    /\ UNCHANGED <<process_queue, wake_up, should_stop, queue_lock,
                   wake_up_lock, should_stop_lock, wakeup_signaler,
                   popped, calls, not_thread>>

\* ... let empty = self.process_queue_size() == 0; if empty { ... }
WaitForWorkSize ==
    /\ tpc[Consumer] = "wait_for_work_size"
    /\ queue_lock = "none"
    /\ IF process_queue = <<>>
          THEN TGoto(Consumer, "wait_for_work_lock")
          ELSE TGoto(Consumer, "returned")
    /\ UNCHANGED <<process_queue, wake_up, should_stop, queue_lock,
                   wake_up_lock, should_stop_lock, wakeup_signaler,
                   popped, calls, not_thread>>

\* Variant: wait_for_work takes wake_up and asks for the queue size then.
WaitForWorkLock_BeforeSize ==
    /\ tpc[Consumer] = "wait_for_work_lock"
    /\ wake_up_lock = "none"
    /\ wake_up_lock' = Consumer
    /\ TGoto(Consumer, "wait_for_work_size")
    /\ UNCHANGED <<process_queue, wake_up, should_stop, queue_lock,
                   should_stop_lock, wakeup_signaler, popped,
                   calls, not_thread>>

\* ... let mut wake_up = self.wake_up.lock().unwrap()
WaitForWorkLock ==
    /\ tpc[Consumer] = "wait_for_work_lock"
    /\ wake_up_lock = "none"
    /\ wake_up_lock' = Consumer
    /\ TGoto(Consumer, "wait_for_work_check")
    /\ UNCHANGED <<process_queue, wake_up, should_stop, queue_lock,
                   should_stop_lock, wakeup_signaler, popped,
                   calls, not_thread>>

\* ... while !*wake_up { wake_up = self.wakeup_signaler.wait(wake_up) }
WaitForWorkCheck ==
    /\ tpc[Consumer] = "wait_for_work_check"
    /\ wake_up_lock' = "none"
    /\ IF wake_up
          THEN /\ TGoto(Consumer, "returned")
               /\ UNCHANGED wakeup_signaler
          ELSE /\ TGoto(Consumer, "wait_for_work_wait")
               /\ wakeup_signaler' = wakeup_signaler \cup {Consumer}
    /\ UNCHANGED <<process_queue, wake_up, should_stop, queue_lock,
                   should_stop_lock, popped, calls, not_thread>>

\* Variant: wait_for_work returns after the first wake-up (if, not while).
WaitForWorkWake_NoRetest ==
    /\ tpc[Consumer] = "wait_for_work_wait"
    /\ Consumer \notin wakeup_signaler
    /\ wake_up_lock = "none"
    /\ wake_up_lock' = "none"
    /\ TGoto(Consumer, "returned")
    /\ UNCHANGED <<process_queue, wake_up, should_stop, queue_lock,
                   should_stop_lock, wakeup_signaler, popped,
                   calls, not_thread>>

\* wait() returns: the mutex is taken again and the loop tests the flag.
WaitForWorkWake ==
    /\ tpc[Consumer] = "wait_for_work_wait"
    /\ Consumer \notin wakeup_signaler
    /\ wake_up_lock = "none"
    /\ wake_up_lock' = Consumer
    /\ TGoto(Consumer, "wait_for_work_check")
    /\ UNCHANGED <<process_queue, wake_up, should_stop, queue_lock,
                   should_stop_lock, wakeup_signaler, popped,
                   calls, not_thread>>

\* Condvar::wait may return without a notification.
WaitForWorkSpuriousWake ==
    /\ tpc[Consumer] = "wait_for_work_wait"
    /\ Consumer \in wakeup_signaler
    /\ wakeup_signaler' = wakeup_signaler \ {Consumer}
    /\ UNCHANGED <<process_queue, wake_up, should_stop, queue_lock,
                   wake_up_lock, should_stop_lock, tpc, popped,
                   calls, not_thread>>

\* After wait_for_work the thread asks should_stop(): it leaves if it is to
\* stop and pops a process otherwise.
ConsumerShouldStop ==
    /\ tpc[Consumer] = "returned"
    /\ should_stop_lock = "none"
    /\ IF should_stop
          THEN TGoto(Consumer, "stopped")
          ELSE TGoto(Consumer, "pop_process_lock_queue")
    /\ UNCHANGED <<process_queue, wake_up, should_stop, queue_lock,
                   wake_up_lock, should_stop_lock, wakeup_signaler,
                   popped, calls, not_thread>>

\* Thread::pop_process: let mut queue = self.process_queue.lock().unwrap()
PopProcessLockQueue ==
    /\ tpc[Consumer] = "pop_process_lock_queue"
    /\ queue_lock = "none"
    /\ queue_lock' = Consumer
    /\ TGoto(Consumer, "pop_process_lock_wake_up")
    /\ UNCHANGED <<process_queue, wake_up, should_stop, wake_up_lock,
                   should_stop_lock, wakeup_signaler, popped,
                   calls, not_thread>>

\* ... let mut wake_up = self.wake_up.lock().unwrap()
PopProcessLockWakeUp ==
    /\ tpc[Consumer] = "pop_process_lock_wake_up"
    /\ wake_up_lock = "none"
    /\ wake_up_lock' = Consumer
    /\ TGoto(Consumer, "pop_process_pop")
    /\ UNCHANGED <<process_queue, wake_up, should_stop, queue_lock,
                   should_stop_lock, wakeup_signaler, popped,
                   calls, not_thread>>

\* Variant: pop_process takes the oldest process (the head of the queue).
PopProcessPop_TakesFirst ==
    /\ tpc[Consumer] = "pop_process_pop"
    /\ wake_up' = FALSE
    /\ wake_up_lock' = "none"
    /\ queue_lock' = "none"
    /\ IF process_queue = <<>>
          THEN /\ TGoto(Consumer, "panicked")
               /\ UNCHANGED <<process_queue, popped, pops>>
          ELSE /\ TGoto(Consumer, "idle")
               /\ process_queue' = Tail(process_queue)
               /\ popped' = Some(Head(process_queue))
               /\ pops' = [pops EXCEPT ![Head(process_queue)] = @ + 1]
    /\ UNCHANGED <<should_stop, should_stop_lock, wakeup_signaler,
                   schedules, not_thread>>

\* ... *wake_up = false; queue.pop().unwrap(): the last element, or a panic
\* on an empty queue; the guards drop
PopProcessPop ==
    /\ tpc[Consumer] = "pop_process_pop"
    /\ wake_up' = FALSE
    /\ wake_up_lock' = "none"
    /\ queue_lock' = "none"
    /\ IF process_queue = <<>>
          THEN /\ TGoto(Consumer, "panicked")
               /\ UNCHANGED <<process_queue, popped, pops>>
          ELSE /\ TGoto(Consumer, "idle")
               /\ process_queue' =
                     SubSeq(process_queue, 1, Len(process_queue) - 1)
               /\ popped' = Some(process_queue[Len(process_queue)])
               /\ pops' = [pops EXCEPT ![process_queue[Len(process_queue)]] =
                                          @ + 1]
    /\ UNCHANGED <<should_stop, should_stop_lock, wakeup_signaler,
                   schedules, not_thread>>

NextThread ==
    \/ \E c \in Schedulers : ScheduleLockQueue(c)
    \/ \E c \in Schedulers : ScheduleLockWakeUp(c)
    \/ \E c \in Schedulers, task \in Tasks : SchedulePush(c, task)
    \/ StopLockShouldStop
    \/ StopLockWakeUp
    \/ StopSet
    \/ WaitForWorkShouldStop
    \/ WaitForWorkSize
    \/ WaitForWorkLock
    \/ WaitForWorkCheck
    \/ WaitForWorkWake
    \/ WaitForWorkSpuriousWake
    \/ ConsumerShouldStop
    \/ PopProcessLockQueue
    \/ PopProcessLockWakeUp
    \/ PopProcessPop

SpecThread == Init /\ [][NextThread]_vars

\* The scheduling of the threads that use the Thread: a thread that holds a
\* mutex goes on to its release, and the worker inside wait_for_work gets a
\* mutex that is released again and again, and leaves Condvar::wait once it
\* was notified.  No thread has to start a call, and a spurious wake-up need
\* not happen.
FairSpecThread ==
    /\ SpecThread
    /\ \A c \in Schedulers : WF_vars(ScheduleLockWakeUp(c))
    /\ \A c \in Schedulers : WF_vars(\E task \in Tasks : SchedulePush(c, task))
    /\ WF_vars(StopLockWakeUp)
    /\ WF_vars(StopSet)
    /\ WF_vars(PopProcessLockWakeUp)
    /\ WF_vars(PopProcessPop)
    /\ SF_vars(WaitForWorkSize)
    /\ SF_vars(WaitForWorkLock)
    /\ WF_vars(WaitForWorkCheck)
    /\ SF_vars(WaitForWorkWake)

(***************************************************************************)
(* The bytecode parser (vm/src/bytecode_parser.rs).  A stream is the       *)
(* sequence of the items its Bytes<T> yields; a reader gets the stream and *)
(* the number of items taken so far and gives its result and the new       *)
(* number.  Numbers wider than 31 bits are kept in 16-bit words, most      *)
(* significant first: u32 as two words, u64 as four, i64 as its signed     *)
(* upper half and the two words of its lower half.                         *)
(***************************************************************************)
\* Some(Err(_)) from bytes.next(): the underlying read failed.
IoError == -1

\* const SIGNATURE_BYTES: [u8; 4] = [97, 101, 111, 110]
SIGNATURE_BYTES == <<97, 101, 111, 110>>

VERSION == 1

\* What a reader gives back: its Result and its position in the stream.
Read(result, pos) == [result |-> result, pos |-> pos]

\* try_byte!(bytes.next(), variant)
try_byte(data, pos, variant) ==
    IF pos >= Len(data) THEN Read(Err(variant), pos)
    ELSE IF data[pos + 1] = IoError THEN Read(Err(variant), pos + 1)
    ELSE Read(Ok(data[pos + 1]), pos + 1)

\* for index in 0..size { buff[index] = try_byte!(bytes.next(), variant) }
RECURSIVE ReadBuff(_, _, _, _, _)
ReadBuff(data, pos, size, variant, buff) ==
    IF size = 0 THEN Read(Ok(buff), pos)
    ELSE LET byte == try_byte(data, pos, variant)
         IN  IF byte.result.ok
                THEN ReadBuff(data, byte.pos, size - 1, variant,
                              Append(buff, byte.result.value[1]))
                ELSE byte

\* u16::from_be(transmute(buff)): the first byte is the most significant
\* one on every host.
U16FromBe(buff) == buff[1] * 256 + buff[2]

\* i32::from_be(transmute(buff)): two's complement, the sign in the first
\* byte.
I32FromBe(buff) ==
    (IF buff[1] >= 128 THEN buff[1] - 256 ELSE buff[1]) * 16777216
    + buff[2] * 65536 + buff[3] * 256 + buff[4]

\* i64::from_be(transmute(buff))
I64FromBe(buff) ==
    <<I32FromBe(SubSeq(buff, 1, 4)), U16FromBe(SubSeq(buff, 5, 6)),
      U16FromBe(SubSeq(buff, 7, 8))>>

\* Variant: a negative i32 becomes 0 (a saturating conversion).
AsU32_Saturating(value) ==
    IF value < 0 THEN <<0, 0>> ELSE <<value \div 65536, value % 65536>>

\* value as u32: the i32 modulo 2^32
AsU32(value) == <<(value \div 65536) % 65536, value % 65536>>

\* value as u64: the i64 modulo 2^64
AsU64(value) == AsU32(value[1]) \o <<value[2], value[3]>>

\* transmute(int): the f64 with these 64 bits
F64FromBits(int) == [bits |-> int]

\* The number of rounds of `for _ in 0..size` with a u64 size: a size of
\* 2^31 or more is more rounds than a stream of the model has items.
Rounds(size) ==
    IF size[1] = 0 /\ size[2] = 0 /\ size[3] < 32768
       THEN size[3] * 65536 + size[4]
       ELSE UsizeMax

read_u8(data, pos) == try_byte(data, pos, "InvalidInteger")

read_u16(data, pos) ==
    LET buff == ReadBuff(data, pos, 2, "InvalidInteger", <<>>)
    IN  IF ~buff.result.ok THEN buff
        ELSE Read(Ok(U16FromBe(buff.result.value[1])), buff.pos)

read_i32(data, pos) ==
    LET buff == ReadBuff(data, pos, 4, "InvalidInteger", <<>>)
    IN  IF ~buff.result.ok THEN buff
        ELSE Read(Ok(I32FromBe(buff.result.value[1])), buff.pos)

\* Ok(try!(read_i32(bytes)) as u32)
read_u32(data, pos) ==
    LET value == read_i32(data, pos)
    IN  IF ~value.result.ok THEN value
        ELSE Read(Ok(AsU32(value.result.value[1])), value.pos)

read_i64(data, pos) ==
    LET buff == ReadBuff(data, pos, 8, "InvalidInteger", <<>>)
    IN  IF ~buff.result.ok THEN buff
        ELSE Read(Ok(I64FromBe(buff.result.value[1])), buff.pos)

\* Ok(try!(read_i64(bytes)) as u64)
read_u64(data, pos) ==
    LET value == read_i64(data, pos)
    IN  IF ~value.result.ok THEN value
        ELSE Read(Ok(AsU64(value.result.value[1])), value.pos)

\* u64::from_be(transmute(buff)) is the same bits as the i64 read as u64.
read_f64(data, pos) ==
    LET buff == ReadBuff(data, pos, 8, "InvalidFloat", <<>>)
    IN  IF ~buff.result.ok THEN buff
        ELSE Read(Ok(F64FromBits(AsU64(I64FromBe(buff.result.value[1])))),
                  buff.pos)

\* A byte that continues a UTF-8 sequence.
Continuation(byte) == byte >= 128 /\ byte <= 191

\* String::from_utf8(buff).is_ok(): the bytes from index on are well-formed
\* UTF-8 (no overlong form, no surrogate, nothing above U+10FFFF).
RECURSIVE from_utf8(_, _)
from_utf8(buff, index) ==
    IF index > Len(buff) THEN TRUE
    ELSE IF buff[index] < 128 THEN from_utf8(buff, index + 1)
    ELSE IF buff[index] >= 194 /\ buff[index] <= 223
       THEN /\ index + 1 <= Len(buff)
            /\ Continuation(buff[index + 1])
            /\ from_utf8(buff, index + 2)
    ELSE IF buff[index] >= 224 /\ buff[index] <= 239
       THEN /\ index + 2 <= Len(buff)
            /\ Continuation(buff[index + 1])
            /\ buff[index] = 224 => buff[index + 1] >= 160
            /\ buff[index] = 237 => buff[index + 1] <= 159
            /\ Continuation(buff[index + 2])
            /\ from_utf8(buff, index + 3)
    ELSE IF buff[index] >= 240 /\ buff[index] <= 244
       THEN /\ index + 3 <= Len(buff)
            /\ Continuation(buff[index + 1])
            /\ buff[index] = 240 => buff[index + 1] >= 144
            /\ buff[index] = 244 => buff[index + 1] <= 143
            /\ Continuation(buff[index + 2])
            /\ Continuation(buff[index + 3])
            /\ from_utf8(buff, index + 4)
    ELSE FALSE

\* Variant: read_string takes every byte that is left in the stream.
read_string_IgnoresSize(data, pos) ==
    LET size == read_u64(data, pos)
        buff == ReadBuff(data, size.pos, Len(data) - size.pos,
                         "InvalidString", <<>>)
    IN  IF ~size.result.ok THEN size
        ELSE IF ~buff.result.ok THEN buff
        ELSE IF from_utf8(buff.result.value[1], 1) THEN buff
        ELSE Read(Err("InvalidString"), buff.pos)

\* read_string: a String is kept as its UTF-8 bytes.
read_string(data, pos) ==
    LET size == read_u64(data, pos)
        buff == ReadBuff(data, size.pos, Rounds(size.result.value[1]),
                         "InvalidString", <<>>)
    IN  IF ~size.result.ok THEN size
        ELSE IF ~buff.result.ok THEN buff
        ELSE IF from_utf8(buff.result.value[1], 1) THEN buff
        ELSE Read(Err("InvalidString"), buff.pos)

\* The fields of a CompiledCode record in the order read_compiled_code
\* reads them, each with its reader.
CompiledCodeFields ==
    <<"string", "string", "u32", "u32", "u32", "u8", "string_vector",
      "instruction_vector", "i64_vector", "f64_vector", "string_vector",
      "code_vector">>

\* The fields of an Instruction in the order read_instruction reads them.
InstructionFields == <<"u16", "u32_vector", "u32", "u32">>

\* Instruction::new(ins_type, args, line, column); transmute(u16) gives the
\* InstructionType with that discriminant.
InstructionNew(fields) ==
    [instruction_type |-> fields[1], arguments |-> fields[2],
     line |-> fields[3], column |-> fields[4]]

\* CompiledCode { name: ..., rest_argument: read_u8 == 1, ... }
CompiledCodeNew(fields) ==
    [name |-> fields[1], file |-> fields[2], line |-> fields[3],
     arguments |-> fields[4], required_arguments |-> fields[5],
     rest_argument |-> (fields[6] = 1), locals |-> fields[7],
     instructions |-> fields[8], integer_literals |-> fields[9],
     float_literals |-> fields[10], string_literals |-> fields[11],
     code_objects |-> fields[12]]

\* The readers of the fields that hold no other record.
Reader(field, data, pos) ==
    CASE field = "u8" -> read_u8(data, pos)
      [] field = "u16" -> read_u16(data, pos)
      [] field = "u32" -> read_u32(data, pos)
      [] field = "i64" -> read_i64(data, pos)
      [] field = "f64" -> read_f64(data, pos)
      [] field = "string" -> read_string(data, pos)

\* read_string_vector! and the other macros: read_vector with the reader
\* of the items.
ItemOf(field) ==
    CASE field = "u32_vector" -> "u32"
      [] field = "i64_vector" -> "i64"
      [] field = "f64_vector" -> "f64"
      [] field = "string_vector" -> "string"
      [] field = "instruction_vector" -> "instruction"
      [] field = "code_vector" -> "code"

Vectors ==
    {"u32_vector", "i64_vector", "f64_vector", "string_vector",
     "instruction_vector", "code_vector"}

\* A call of read_instruction or read_compiled_code: the fields it still has
\* to read and the ones it has read.
FieldsFrame(new) ==
    [new |-> new,
     fields |-> IF new = "code" THEN CompiledCodeFields ELSE InstructionFields,
     amount |-> 0, buff |-> <<>>]

\* A call of read_vector after `let amount = try!(read_u64(bytes))`: the
\* rounds left of for _ in 0..amount { buff.push(try!(reader(bytes))); }
ItemsFrame(reader, amount) ==
    [new |-> "vector", fields |-> <<reader>>, amount |-> amount, buff |-> <<>>]

\* read_vector up to its loop
ReadAmount(data, pos, reader) ==
    LET amount == read_u64(data, pos)
    IN  IF ~amount.result.ok THEN amount
        ELSE Read(Ok(ItemsFrame(reader, Rounds(amount.result.value[1]))),
                  amount.pos)

\* A call has a field or an item left to read.
Pending(frame) ==
    IF frame.new = "vector" THEN frame.amount > 0 ELSE frame.fields # <<>>

\* A call after one more of its fields or items was read.
Advance(frame, value) ==
    IF frame.new = "vector"
       THEN [frame EXCEPT !.amount = @ - 1, !.buff = Append(@, value)]
       ELSE [frame EXCEPT !.fields = Tail(@), !.buff = Append(@, value)]

\* What a call returns once all is read: Ok(buff), Ok(Instruction::new(..))
\* or Ok(CompiledCode { .. })
Built(frame) ==
    CASE frame.new = "vector" -> frame.buff
      [] frame.new = "instruction" -> InstructionNew(frame.buff)
      [] frame.new = "code" -> CompiledCodeNew(frame.buff)

\* The calls of read_compiled_code, read_instruction and read_vector that
\* are under way, the innermost last: the innermost call reads its next
\* field or item, which is a call of its own for a record or a vector; every
\* try! hands the first error to its caller, down to the outermost.
RECURSIVE ReadFrames(_, _, _)
ReadFrames(data, pos, frames) ==
    LET frame == frames[Len(frames)]
        callers == SubSeq(frames, 1, Len(frames) - 1)
        field == Head(frame.fields)
    IN  IF ~Pending(frame)
           THEN IF callers = <<>> THEN Read(Ok(Built(frame)), pos)
                ELSE ReadFrames(data, pos,
                                [callers EXCEPT ![Len(callers)] =
                                    Advance(@, Built(frame))])
        ELSE IF field \in {"instruction", "code"}
           THEN ReadFrames(data, pos, Append(frames, FieldsFrame(field)))
        ELSE IF field \in Vectors
           THEN LET vector == ReadAmount(data, pos, ItemOf(field))
                IN  IF ~vector.result.ok THEN vector
                    ELSE ReadFrames(data, vector.pos,
                                    Append(frames, vector.result.value[1]))
        ELSE LET item == Reader(field, data, pos)
             IN  IF ~item.result.ok THEN item
                 ELSE ReadFrames(data, item.pos,
                                 [frames EXCEPT ![Len(frames)] =
                                     Advance(@, item.result.value[1])])

read_vector(data, pos, reader) ==
    LET vector == ReadAmount(data, pos, reader)
    IN  IF ~vector.result.ok THEN vector
        ELSE ReadFrames(data, vector.pos, <<vector.result.value[1]>>)

read_instruction(data, pos) ==
    ReadFrames(data, pos, <<FieldsFrame("instruction")>>)

read_compiled_code(data, pos) == ReadFrames(data, pos, <<FieldsFrame("code")>>)

\* The signature loop of parse: for expected in SIGNATURE_BYTES.iter()
RECURSIVE ReadSignature(_, _, _)
ReadSignature(data, pos, expected) ==
    IF expected = <<>> THEN Read(Ok(TRUE), pos)
    ELSE LET byte == try_byte(data, pos, "InvalidSignature")
         IN  IF ~byte.result.ok THEN byte
             ELSE IF byte.result.value[1] # Head(expected)
                THEN Read(Err("InvalidSignature"), byte.pos)
             ELSE ReadSignature(data, byte.pos, Tail(expected))

\* Variant: parse reads the four signature bytes and compares them then.
parse_ReadsWholeSignature(data) ==
    LET signature == ReadBuff(data, 0, 4, "InvalidSignature", <<>>)
        version == try_byte(data, signature.pos, "InvalidVersion")
    IN  IF ~signature.result.ok THEN signature
        ELSE IF signature.result.value[1] # SIGNATURE_BYTES
           THEN Read(Err("InvalidSignature"), signature.pos)
        ELSE IF ~version.result.ok THEN version
        ELSE IF version.result.value[1] # VERSION
           THEN Read(Err("InvalidVersion"), version.pos)
        ELSE read_compiled_code(data, version.pos)

\* parse
parse(data) ==
    LET signature == ReadSignature(data, 0, SIGNATURE_BYTES)
        version == try_byte(data, signature.pos, "InvalidVersion")
    IN  IF ~signature.result.ok THEN signature
        ELSE IF ~version.result.ok THEN version
        ELSE IF version.result.value[1] # VERSION
           THEN Read(Err("InvalidVersion"), version.pos)
        ELSE read_compiled_code(data, version.pos)

(***************************************************************************)
(* The encoder: the pack macros of the parser's tests and the order of the *)
(* fields in tests::test_read_compiled_code.  Every byte is written with   *)
(* the record of the format it belongs to and with the primitive it is a   *)
(* byte of.                                                                *)
(***************************************************************************)
Written(buffer, record, primitive) ==
    [i \in DOMAIN buffer |->
        [byte |-> buffer[i], record |-> record, primitive |-> primitive]]

\* The bytes of an encoding.
Bytes(written) == [i \in DOMAIN written |-> written[i].byte]

\* The two bytes of u16::to_be(num)
U16ToBe(num) == <<num \div 256, num % 256>>

pack_u8(num) == Written(<<num>>, "integer", "integer")

pack_u16(num) == Written(U16ToBe(num), "integer", "integer")

pack_u32(num) ==
    Written(U16ToBe(num[1]) \o U16ToBe(num[2]), "integer", "integer")

pack_u64(num) ==
    Written(U16ToBe(num[1]) \o U16ToBe(num[2]) \o U16ToBe(num[3])
            \o U16ToBe(num[4]), "integer", "integer")

\* pack_u64!(transmute($num))
pack_f64(num) ==
    [i \in DOMAIN pack_u64(num.bits) |->
        [pack_u64(num.bits)[i] EXCEPT !.record = "float",
                                      !.primitive = "float"]]

\* $string.len() as u64
LenAsU64(items) == <<0, 0, Len(items) \div 65536, Len(items) % 65536>>

\* pack_string!: the length of the string record, then its bytes
pack_string(string) ==
    [i \in DOMAIN pack_u64(LenAsU64(string)) |->
        [pack_u64(LenAsU64(string))[i] EXCEPT !.record = "string"]]
    \o Written(string, "string", "string")

\* The buffers one after the other.
RECURSIVE Concat(_)
Concat(buffers) ==
    IF buffers = <<>> THEN <<>> ELSE Head(buffers) \o Concat(Tail(buffers))

\* The encoding of a value of each kind; an i64 is packed as u64, a vector
\* as pack_u64!(count) and then its items.
RECURSIVE Pack(_, _)
Pack(field, value) ==
    CASE field = "u32" -> pack_u32(value)
      [] field = "i64" -> pack_u64(AsU64(value))
      [] field = "f64" -> pack_f64(value)
      [] field = "string" -> pack_string(value)
      [] field \in Vectors ->
            pack_u64(LenAsU64(value))
            \o Concat([i \in DOMAIN value |-> Pack(ItemOf(field), value[i])])
      [] field = "instruction" ->
            pack_u16(value.instruction_type)
            \o Pack("u32_vector", value.arguments)
            \o pack_u32(value.line) \o pack_u32(value.column)
      [] field = "code" ->
            pack_string(value.name) \o pack_string(value.file)
            \o pack_u32(value.line) \o pack_u32(value.arguments)
            \o pack_u32(value.required_arguments)
            \o pack_u8(IF value.rest_argument THEN 1 ELSE 0)
            \o Pack("string_vector", value.locals)
            \o Pack("instruction_vector", value.instructions)
            \o Pack("i64_vector", value.integer_literals)
            \o Pack("f64_vector", value.float_literals)
            \o Pack("string_vector", value.string_literals)
            \o Pack("code_vector", value.code_objects)

\* pack_signature!, pack_u8!(VERSION), then the top-level CompiledCode
Encode(compiled_code) ==
    Written(SIGNATURE_BYTES, "signature", "signature")
    \o Written(<<VERSION>>, "version", "version")
    \o Pack("code", compiled_code)

\* The items of the streams given to parse: the bytes of the signature,
\* the version, a byte that is neither (and no UTF-8), a failed read.
StreamItems == {97, 101, 111, 110, 1, 159, IoError}

Streams(length) == UNION {[1..n -> StreamItems] : n \in 0..length}

\* Values of the integer and float fields: small ones, and ones with the
\* high bit set.
U32Samples == <<<<0, 4>>, <<32768, 0>>, <<65535, 65535>>>>

I64Samples == <<<<0, 0, 10>>, <<-1, 65535, 65535>>, <<-2147483647 - 1, 0, 0>>>>

\* 1.2, -2.0 and the largest finite f64
F64Samples ==
    <<[bits |-> <<16371, 13107, 13107, 13107>>], [bits |-> <<49152, 0, 0, 0>>],
      [bits |-> <<32751, 65535, 65535, 65535>>]>>

\* "", "ae" and "\u{e9}o"
StringSamples == <<<<>>, <<97, 101>>, <<195, 169, 111>>>>

\* The declared lengths of the string records given to read_string; the
\* last one is 2^63.
Lengths == {<<0, 0, 0, 0>>, <<0, 0, 0, 1>>, <<0, 0, 0, 2>>, <<32768, 0, 0, 0>>}

\* A CompiledCode with the scalar fields of sample s and vectors of t - 1
\* items each, with nested code objects down to the given depth.
RECURSIVE CompiledCode(_, _, _)
CompiledCode(depth, s, t) ==
    [name |-> StringSamples[s],
     file |-> StringSamples[t],
     line |-> U32Samples[s],
     arguments |-> U32Samples[t],
     required_arguments |-> U32Samples[1],
     rest_argument |-> (s = 2),
     locals |-> [i \in 1..(t - 1) |-> StringSamples[i + 1]],
     instructions |->
        [i \in 1..(t - 1) |->
            [instruction_type |-> i - 1,
             arguments |-> [j \in 1..(s - 1) |-> U32Samples[j + 1]],
             line |-> U32Samples[i], column |-> U32Samples[s]]],
     integer_literals |-> [i \in 1..(t - 1) |-> I64Samples[((i + s) % 3) + 1]],
     float_literals |-> [i \in 1..(t - 1) |-> F64Samples[((i + s) % 3) + 1]],
     string_literals |-> [i \in 1..(s - 1) |-> StringSamples[i + 1]],
     code_objects |-> IF depth = 0 THEN <<>>
                      ELSE <<CompiledCode(depth - 1, t, s)>>]

CompiledCodes ==
    {CompiledCode(depth, s, t) : depth \in 0..MaxNest, s \in 1..3, t \in 1..3}

\* A call of a reader on a stream that starts at its first item.
Output(reader, read) ==
    Some([reader |-> reader, result |-> read.result, pos |-> read.pos])

\* parse on a stream of a few items.
ParseStream(data) ==
    /\ output = None
    /\ stream' = data
    /\ code' = None
    /\ \E read \in {parse(data)} : output' = Output("parse", read)
    /\ UNCHANGED not_parser

\* read_string on a length followed by content of any size.
ReadStringRecord(size, content) ==
    /\ output = None
    /\ \E data \in {Bytes(pack_u64(size)) \o content} :
          /\ stream' = data
          /\ \E read \in {read_string(data, 0)} :
                output' = Output("read_string", read)
    /\ code' = None
    /\ UNCHANGED not_parser

\* parse on the first `size` bytes of the encoding of a CompiledCode: all
\* of them, or a truncated stream.
ParseEncoded(compiled_code, size) ==
    /\ output = None
    /\ \E data \in {SubSeq(Bytes(Encode(compiled_code)), 1, size)} :
          /\ stream' = data
          /\ \E read \in {parse(data)} : output' = Output("parse", read)
    /\ code' = Some(compiled_code)
    /\ UNCHANGED not_parser

\* The buffer and the result of the call are dropped.
DropStream ==
    /\ output # None
    /\ stream' = <<>>
    /\ code' = None
    /\ output' = None
    /\ UNCHANGED not_parser

\* A reader is called on a new stream once the last one is dropped.
NextParser ==
    \/ DropStream
    \/ /\ output = None
       /\ \E data \in Streams(MaxStream) : ParseStream(data)
    \/ /\ output = None
       /\ \E size \in Lengths, content \in Streams(MaxContent) :
             ReadStringRecord(size, content)
    \/ /\ output = None
       /\ \E compiled_code \in CompiledCodes :
             \E size \in 0..Len(Encode(compiled_code)) :
                ParseEncoded(compiled_code, size)

SpecParser == Init /\ [][NextParser]_vars

(***************************************************************************)
(* Properties                                                              *)
(***************************************************************************)
\* A step of thread t: its position changes.
StepOf(t) == pc'[t] # pc[t]

\* C1: set_status_without_overwriting_gc_status(s), called while the status
\* is not SuspendedByGc: if suspend_for_gc is true the status written is
\* SuspendedByGc (not s) and the flag is cleared; if the flag is false the
\* status written is s and the call leaves the flag false.  For every s.
C1_FlagReplacesNewStatus ==
    [][\A t \in Threads :
        /\ (pc[t] = "swo_flag" /\ StepOf(t)) =>
              /\ overwrite[t] /\ status # "SuspendedByGc"
              /\ pc'[t] = (IF suspend_for_gc THEN "swo_gc" ELSE "swo_new")
        /\ (pc[t] = "swo_gc" /\ StepOf(t)) =>
              /\ status' = "SuspendedByGc"
              /\ suspend_for_gc' = FALSE
        /\ (pc[t] = "swo_new" /\ StepOf(t)) =>
              /\ status' = new_status[t]
              /\ suspend_for_gc' = suspend_for_gc
        /\ (pc[t] \in {"swo_notify", "swo_unlock"} /\ StepOf(t)) =>
              /\ status' = status
              /\ suspend_for_gc' = suspend_for_gc]_vars

\* The flag was set and finished() has written SuspendedByGc instead of
\* Finished and cleared the flag.
C1_Witness ==
    /\ pc["worker"] = "swo_notify"
    /\ new_status["worker"] = "Finished"
    /\ status = "SuspendedByGc"
    /\ suspend_for_gc = FALSE

\* C2: set_status_without_overwriting_gc_status(s) called while the status
\* is SuspendedByGc is dropped: the call changes neither the status nor
\* suspend_for_gc and signals nobody, whatever s is.
C2_DroppedWhenSuspendedByGc ==
    [][\A t \in Threads :
        /\ (pc[t] = "swo_check" /\ status = "SuspendedByGc" /\ StepOf(t)) =>
              /\ pc'[t] = "swo_unlock"
              /\ ~overwrite'[t]
              /\ UNCHANGED <<status, suspend_for_gc, status_signaler>>
        /\ (pc[t] = "swo_unlock" /\ ~overwrite[t]) =>
              /\ status = "SuspendedByGc"
              /\ status' = "SuspendedByGc"
              /\ StepOf(t) =>
                    /\ pc'[t] = ret[t]
                    /\ UNCHANGED <<suspend_for_gc, status_signaler>>]_vars

\* finished() is about to return after it found the status SuspendedByGc
\* while the flag was set.
C2_Witness ==
    /\ pc["worker"] = "swo_unlock"
    /\ ~overwrite["worker"]
    /\ new_status["worker"] = "Finished"
    /\ status = "SuspendedByGc"
    /\ suspend_for_gc = TRUE

\* The transitions of the status table.
StatusTable ==
    { <<"Scheduled", "Running">>,
      <<"Running", "Suspended">>,
      <<"Running", "Finished">>,
      <<"Running", "Failed">>,
      <<"Running", "SuspendedByGc">>,
      <<"Suspended", "SuspendedByGc">>,
      <<"Suspended", "Scheduled">>,
      <<"SuspendedByGc", "Scheduled">> }

\* C3: a transition of the status out of SuspendedByGc is made only by the
\* GC thread; no call of the worker changes a status that is SuspendedByGc.
C3_OnlyGcLeavesSuspendedByGc ==
    [][(status = "SuspendedByGc" /\ status' # "SuspendedByGc") =>
          (status_lock = "gc" /\ StepOf("gc"))]_vars

\* C4: every change of the status is a transition of the status table.
C4_OnlyTableTransitions ==
    [][(status' # status) => (<<status, status'>> \in StatusTable)]_vars

\* C5: Finished and Failed are terminal: once the status is one of them it
\* never changes again.
C5_TerminalStatuses ==
    [][(status \in {"Finished", "Failed"}) => (status' = status)]_vars

\* C6: from the return of request_gc_suspension() until the GC thread calls
\* reset_status() the status is SuspendedByGc (and so never Running).
C6_GcExcludesMutator ==
    pc["gc"] \in {"collect", "reset_status"} => status = "SuspendedByGc"

\* The positions of the GC thread inside request_gc_suspension().
InRequestGcSuspension ==
    {"request_gc_suspension", "rgs_set", "wwr_lock", "wwr_check", "wwr_wait"}

\* C7: request_gc_suspension() sets suspend_for_gc to true unless it finds
\* the status SuspendedByGc (then it does not touch the flag), and it
\* returns only at a moment when the status is not Running: while the
\* status is Running it stays inside wait_while_running().
C7_RequestGcSuspension ==
    [][/\ (pc["gc"] = "request_gc_suspension" /\ StepOf("gc")) =>
             IF status = "SuspendedByGc"
                THEN pc'["gc"] = "wwr_lock" /\ suspend_for_gc' = suspend_for_gc
                ELSE pc'["gc"] = "rgs_set"
       /\ (pc["gc"] = "rgs_set" /\ StepOf("gc")) =>
             (suspend_for_gc' = TRUE /\ pc'["gc"] = "wwr_lock")
       /\ (pc["gc"] \in InRequestGcSuspension /\ StepOf("gc")) =>
             /\ pc'["gc"] \in InRequestGcSuspension \cup {"collect"}
             /\ pc'["gc"] = "collect" => (status # "Running" /\ status' = status)
             /\ status = "Running" => pc'["gc"] # "collect"]_vars

\* The GC thread has set the flag and is blocked on the condvar of a Running
\* process.
C7_Witness ==
    /\ pc["gc"] = "wwr_wait"
    /\ "gc" \in status_signaler
    /\ status = "Running"
    /\ suspend_for_gc = TRUE

\* C8: a request made on a Running process is never lost: once the GC
\* thread is about to set the flag of a Running process, and the worker
\* keeps reaching safe points, request_gc_suspension() eventually returns.
C8_HandshakeLiveness ==
    (pc["gc"] = "rgs_set" /\ status = "Running") ~> (pc["gc"] = "collect")

\* C9: every change of the status is written by the thread that holds the
\* status lock, which then calls notify_all before it releases the lock; so
\* whenever the lock is free and the status is not Running, no thread is
\* still blocked in wait_while_running().
C9_ChangesAnnouncedUnderLock ==
    /\ []((status_lock = "none" /\ status # "Running") => status_signaler = {})
    /\ [][/\ (status' # status) =>
                /\ status_lock \in Threads
                /\ status_lock' = status_lock
                /\ StepOf(status_lock)
                /\ pc'[status_lock] \in {"ss_notify", "swo_notify"}
          /\ \A t \in Threads :
                (pc[t] \in {"ss_notify", "swo_notify"} /\ StepOf(t)) =>
                    /\ status_lock = t
                    /\ status_lock' = t
                    /\ status_signaler' = {}
                    /\ pc'[t] \in {"ss_unlock", "swo_unlock"}]_vars

\* The worker has written SuspendedByGc and notified, still holding the
\* lock; the GC thread blocked in wait_while_running() has been woken.
C9_Witness ==
    /\ pc["worker"] = "ss_unlock"
    /\ status_lock = "worker"
    /\ status = "SuspendedByGc"
    /\ pc["gc"] = "wwr_wait"
    /\ "gc" \notin status_signaler

\* C10: while the status is Running only the worker writes LocalData: the
\* GC thread writes suspend_for_gc and gc_state only when the status is not
\* Running.
C10_SingleWriterOfLocalData ==
    [][(pc["gc"] \in {"rgs_set", "rs_gc_state"} /\ StepOf("gc")) =>
          (status # "Running")]_vars

\* C14: should_schedule_gc() answers true exactly when gc_state is None and
\* the young block allocation threshold is exceeded, answers false when
\* gc_state is Scheduled whatever the threshold, and changes no state.
C14_ShouldScheduleGc ==
    [][(pc["worker"] = "should_schedule_gc" /\ StepOf("worker")) =>
          (/\ (pc'["worker"] = "gc_scheduled") <=>
                  (gc_state = "None" /\ young_exceeded)
           /\ (gc_state = "Scheduled") => (pc'["worker"] = "safepoint")
           /\ pc'["worker"] \in {"gc_scheduled", "safepoint"}
           /\ UNCHANGED <<shared, locals, young_exceeded, others>>)]_vars

\* The call has answered true: gc_state None, threshold exceeded.
C14_Witness ==
    /\ pc["worker"] = "gc_scheduled"
    /\ gc_state = "None"
    /\ young_exceeded

\* A recorded write that crosses from the mature to the young generation.
MatureToYoung(w) == is_mature(w[1]) /\ is_young(w[2])

\* C11: starting from an empty remembered set, after any sequence of
\* write_barrier(a, b) calls the remembered set is exactly the set of the
\* pointers a of the calls with a mature and b young; a call with a not
\* mature or b not young leaves the set unchanged, and the written pointer b
\* is never inserted.
C11_RememberedSetExact ==
    [][/\ remembered_set' = {w[1] : w \in {x \in writes' : MatureToYoung(x)}}
       /\ \A w \in writes' \ writes :
             (~MatureToYoung(w)) => (remembered_set' = remembered_set)
       /\ \A w \in writes' :
             MatureToYoung(w) => (w[2] \notin remembered_set')]_vars

\* Two pointers are remembered and a call that does not cross generations
\* has been made.
C11_Witness ==
    /\ Cardinality(remembered_set) = 2
    /\ \E w \in writes : ~MatureToYoung(w)

\* A step in which producer p pushes onto the mailbox.
Pushes(p) == sender[p].pc = "push" /\ sender'[p].pc = "idle"

\* C12: no pointer in the mailbox is local (young or mature) to a sender's
\* heap: a local message is replaced, before the push, by the pointer that
\* the mailbox allocator's copy_object returned, and a message that is not
\* local is pushed as the identical pointer.
C12_MailboxHoldsNoLocalPointer ==
    [][/\ \A i \in DOMAIN mailbox' : ~is_local(mailbox'[i])
       /\ \A p \in Producers :
             Pushes(p) =>
                /\ mailbox' = Append(mailbox, mailbox'[Len(mailbox')])
                /\ is_local(sender[p].message) =>
                      /\ mailbox'[Len(mailbox')].space = "mailbox"
                      /\ mailbox'[Len(mailbox')] = sender[p].to_send
                /\ (~is_local(sender[p].message)) =>
                      (mailbox'[Len(mailbox')] = sender[p].message)]_vars

\* A copied young message and a permanent message are in the mailbox.
C12_Witness ==
    /\ \E i \in DOMAIN pushed, j \in DOMAIN mailbox :
          /\ pushed[i][3].space = "mailbox"
          /\ mailbox[j] = pushed[i][3]
    /\ \E j \in DOMAIN mailbox : is_permanent(mailbox[j])
    /\ \E p \in Producers : sender[p].sent > 0 /\ is_young(sender[p].message)

\* The pushes of producer p, in the order they happened.
PushesOf(p) == SelectSeq(pushed, LAMBDA e : e[1] = p)

\* C13: the messages received, followed by the ones still queued, are the
\* messages pushed, in the order of the pushes, each exactly once; the
\* pushes of each producer are in that producer's send order; and
\* receive_message returns none exactly when the mailbox is empty.
C13_FifoMailbox ==
    [][/\ received' \o mailbox' = [i \in DOMAIN pushed' |-> pushed'[i][3]]
       /\ \A p \in Producers :
             /\ Len(PushesOf(p)') = sender'[p].sent
             /\ \A k \in DOMAIN PushesOf(p)' : PushesOf(p)'[k][2] = k
       /\ (received' # received \/ last' # last) =>
             ((last' = None) <=> (mailbox = <<>>))]_vars

\* Both producers have sent, their messages were queued together, and the
\* consumer has received from both and then found the mailbox empty.
C13_Witness ==
    /\ \A p \in Producers : sender[p].sent = MaxSend
    /\ Len(received) = 2 * MaxSend
    /\ pushed[1][1] # pushed[2][1]
    /\ last = None

\* The ancestors of the context at the head of the chain.
Ancestors == Len(chain) - 1

\* C17: for every chain and every depth >= 1, find_parent(depth) returns the
\* ancestor exactly depth hops up (depth 1 is the direct parent), and none
\* if and only if the chain has fewer than depth ancestors.
C17_FindParentExactDepth ==
    (call.called /\ call.depth >= 1) =>
        /\ ~call.panicked
        /\ (call.found = None) <=> (Ancestors < call.depth)
        /\ (Ancestors >= call.depth) =>
              (call.found = Some(SubSeq(chain, call.depth + 1, Len(chain))))

\* A grandparent was found, and a call went past the end of the chain.
C17_Witness ==
    /\ call.called
    /\ call.depth = 2
    /\ Ancestors = 3
    /\ call.found = Some(SubSeq(chain, 3, 4))

\* parent() applied n times to an optional context.
RECURSIVE ParentTimes(_, _)
ParentTimes(found, n) ==
    IF n = 0 THEN found
    ELSE ParentTimes(IF found = None THEN None ELSE parent(found[1]), n - 1)

\* C18 as stated: find_parent(k) is parent() applied exactly k times to
\* ctx.parent(), for every k.
C18_KTimesFromParent ==
    call.called =>
        /\ ~call.panicked
        /\ call.found = ParentTimes(parent(chain), call.depth)

\* C18, amended: for every k >= 1, find_parent(k) is parent() applied
\* exactly k - 1 times to ctx.parent(), and it is none if and only if the
\* chain has fewer than k ancestors.
C18_KMinusOneTimesFromParent ==
    (call.called /\ call.depth >= 1) =>
        /\ ~call.panicked
        /\ call.found = ParentTimes(parent(chain), call.depth - 1)
        /\ (call.found = None) <=> (Ancestors < call.depth)

\* find_parent(1) on a context with two ancestors returned the parent, which
\* is not the parent's parent.
C18_Witness ==
    /\ call.called
    /\ call.depth = 1
    /\ Ancestors = 2
    /\ call.found = Some(Tail(chain))
    /\ call.found # ParentTimes(parent(chain), 1)

\* C19: find_parent(0) returns what find_parent(1) returns, the context's
\* parent, and depth - 1 does not underflow.
C19_DepthZeroIsParent ==
    (call.called /\ call.depth = 0) =>
        /\ ~call.panicked
        /\ call.found = parent(chain)

\* The slots roots() has to report: self, every set local and every set
\* register of every context of the stack.
LiveSlots ==
    UNION {{SlotPointer(i, "self_object", 0)}
           \cup {SlotPointer(i, "local", l) :
                    l \in {x \in Locals : context[i].locals[x] # None}}
           \cup {SlotPointer(i, "register", r) :
                    r \in {x \in Registers : context[i].register[x] # None}} :
           i \in DOMAIN context}

\* C15: roots() contains a slot handle for self, for every set local and
\* for every set register of every context of the stack, the current one
\* and all its parents; for a process with one context, one local and one
\* register set it has exactly 3 entries.
C15_RootsComplete ==
    (pointers # <<>>) =>
        /\ \A slot \in LiveSlots : \E j \in DOMAIN pointers : pointers[j] = slot
        /\ (/\ Len(context) = 1
            /\ Cardinality({l \in Locals : context[1].locals[l] # None}) = 1
            /\ Cardinality({r \in Registers :
                               context[1].register[r] # None}) = 1)
              => (Len(pointers) = 3)

\* roots() was called with a local and a register set in the current
\* context and in its parent.
C15_Witness ==
    /\ Len(context) = 2
    /\ pointers # <<>>
    /\ \A i \in DOMAIN context :
          /\ context[i].locals[0] # None
          /\ context[i].register[0] # None

\* C16: the handles of roots() are the live slots, not copies: after an
\* address was written through every handle, get_local(i), get_register(i)
\* and self_object() read that address at the indices that were set, and
\* the other indices are still unset.
C16_RootsNoCopy ==
    rewritten =>
        /\ self_object = NewAddress
        /\ \A i \in Locals : get_local(i) \in {None, Some(NewAddress)}
        /\ \A i \in Registers :
              get_register_option(i) \in {None, Some(NewAddress)}
        /\ \A j \in DOMAIN pointers :
              /\ pointers[j].kind = "local" /\ pointers[j].context = 1 =>
                    get_local(pointers[j].index) = Some(NewAddress)
              /\ pointers[j].kind = "register" /\ pointers[j].context = 1 =>
                    get_register_option(pointers[j].index) = Some(NewAddress)
        /\ Len(pointers) = Cardinality(LiveSlots)

\* The address was written through the handles of a process with local 0
\* and register 0 set, as in the test.
C16_Witness ==
    /\ rewritten
    /\ Len(context) = 1
    /\ get_local(0) = Some(NewAddress)
    /\ get_register_option(0) = Some(NewAddress)
    /\ get_register_option(1) = None

\* C20: whenever wait_for_work() has returned, the process queue is not
\* empty or should_stop is true, and a pop_process() that follows a return
\* without stop never finds the queue empty (its unwrap never panics), with
\* one consumer and any schedulers.
C20_WaitForWorkReturnsWithWork ==
    /\ (tpc[Consumer] = "returned") => (process_queue # <<>> \/ should_stop)
    /\ (tpc[Consumer] \in {"pop_process_lock_queue",
                            "pop_process_lock_wake_up", "pop_process_pop"})
          => (process_queue # <<>>)
    /\ tpc[Consumer] # "panicked"

\* wait_for_work has returned on the wake_up flag, without stop: the queue
\* was empty when it looked and a scheduler has pushed since.
C20_Witness ==
    /\ tpc[Consumer] = "returned"
    /\ wake_up
    /\ ~should_stop
    /\ Len(process_queue) = 1
    /\ \E c \in Schedulers : tpc[c] = "idle"

\* The worker is inside wait_for_work, past its test of should_stop.
InWaitForWork ==
    tpc[Consumer] \in {"wait_for_work_size", "wait_for_work_lock",
                       "wait_for_work_check", "wait_for_work_wait"}

\* C21: no lost wake-up on the worker: it is never blocked in
\* wakeup_signaler.wait() while the queue is non-empty or should_stop is
\* true, and a worker inside wait_for_work() eventually returns once a process
\* is scheduled and not yet popped or stop() has set should_stop.
C21_NoLostWakeUp ==
    /\ [](Consumer \in wakeup_signaler
            => (process_queue = <<>> /\ ~should_stop))
    /\ (InWaitForWork /\ (process_queue # <<>> \/ should_stop))
          ~> ~InWaitForWork

\* The worker found the queue empty and went to sleep; a schedule() has
\* pushed since and its notify_all has taken the worker out of the wait.
C21_Witness ==
    /\ tpc[Consumer] = "wait_for_work_wait"
    /\ Consumer \notin wakeup_signaler
    /\ process_queue # <<>>
    /\ wake_up
    /\ ~should_stop

\* C22: the run queue is LIFO: every change of it is a schedule() that
\* appends its process at the tail or a pop_process() that removes the tail
\* and returns it, the most recently scheduled process not popped yet.
C22_LifoQueue ==
    [][(process_queue' # process_queue) =>
          \/ /\ \E c \in Schedulers : tpc[c] = "schedule_push"
             /\ \E task \in Tasks :
                   process_queue' = Append(process_queue, task)
             /\ popped' = popped
          \/ /\ tpc[Consumer] = "pop_process_pop"
             /\ process_queue # <<>>
             /\ process_queue' =
                   SubSeq(process_queue, 1, Len(process_queue) - 1)
             /\ popped' = Some(process_queue[Len(process_queue)])]_vars

\* Process 1 was scheduled before process 2, and pop_process has returned
\* process 2 and left process 1.
C22_Witness ==
    /\ popped = Some(2)
    /\ process_queue = <<1>>
    /\ tpc[Consumer] = "idle"

\* C23: stop() sets should_stop and wake_up and wakes every waiter, and it
\* takes no process from the queue; should_stop is never reset, by
\* pop_process or by anything else; once stop() has returned the worker is
\* not blocked in wait(), and a wait_for_work() begun then returns at once.
C23_StopIsPermanent ==
    [][/\ should_stop => should_stop'
       /\ (tpc[Stopper] = "stop_set" /\ tpc'[Stopper] = "stopped")
             => (should_stop' /\ wake_up' /\ wakeup_signaler' = {})
       /\ (tpc'[Stopper] # tpc[Stopper]) => (process_queue' = process_queue)
       /\ (tpc'[Stopper] = "stopped") => (Consumer \notin wakeup_signaler')
       /\ (tpc[Stopper] = "stopped" /\ tpc[Consumer] = "idle"
              /\ tpc'[Consumer] # "idle")
             => (tpc'[Consumer] = "returned")]_vars

\* stop() returned while the worker was popping a process: pop_process has
\* reset wake_up, should_stop is still set, and the wait_for_work() that
\* followed has returned with a process left on the queue.
C23_Witness ==
    /\ tpc[Stopper] = "stopped"
    /\ should_stop
    /\ ~wake_up
    /\ popped # None
    /\ process_queue # <<>>
    /\ tpc[Consumer] = "returned"

\* C24: get_register(i) is an error if and only if no set_register(i, _) has
\* been made on the current context, and it returns the value of the latest
\* such call otherwise; it changes no state; a context that was just pushed
\* has every register unset.
C24_GetRegisterErrorIffUnset ==
    /\ [](got # None =>
            /\ got[1].result.ok = (last_set[1][got[1].register] # None)
            /\ got[1].result.ok =>
                  (got[1].result.value = last_set[1][got[1].register])
            /\ ~got[1].result.ok =>
                  (got[1].result.error =
                      <<UndefinedObject(got[1].register)>>))
    /\ [][(got' # got /\ got' # None) =>
             UNCHANGED <<context, last_set>>]_vars
    /\ [][(Len(context') > Len(context)) =>
             (\A register \in Registers :
                 context'[1].register[register] = None
                 /\ last_set'[1][register] = None)]_vars

\* Register 0 was set twice in the first context; a context was pushed, its
\* register 1 set, and get_register(0) on it is an error.
C24_Witness ==
    /\ Len(context) = 2
    /\ got # None
    /\ got[1].register = 0
    /\ ~got[1].result.ok
    /\ context[1].register[1] = Some(NewAddress)
    /\ context[2].register[0] = Some(NewAddress)

\* The number of leading items of a stream that agree with the signature.
RECURSIVE Agree(_, _)
Agree(data, expected) ==
    IF data = <<>> \/ expected = <<>> \/ Head(data) # Head(expected) THEN 0
    ELSE 1 + Agree(Tail(data), Tail(expected))

\* C25: parse() returns InvalidSignature for every stream whose first four
\* bytes are not 0x61 0x65 0x6F 0x6E, shorter streams included, and it has
\* taken the bytes up to the first mismatching one and no more (every byte,
\* when the stream ends inside the signature).
C25_InvalidSignature ==
    (output # None /\ output[1].reader = "parse"
       /\ Agree(stream, SIGNATURE_BYTES) < Len(SIGNATURE_BYTES))
    => /\ output[1].result = Err("InvalidSignature")
       /\ output[1].pos =
             IF Agree(stream, SIGNATURE_BYTES) < Len(stream)
                THEN Agree(stream, SIGNATURE_BYTES) + 1
                ELSE Len(stream)

\* parse was given "ae" followed by a wrong byte and two more bytes: it has
\* failed at the third byte and left the two.
C25_Witness ==
    /\ output # None
    /\ output[1].reader = "parse"
    /\ Len(stream) = 5
    /\ Agree(stream, SIGNATURE_BYTES) = 2
    /\ output[1].result = Err("InvalidSignature")
    /\ output[1].pos = 3

\* The error kind of each record of the format.
ErrorKind(record) ==
    CASE record = "signature" -> "InvalidSignature"
      [] record = "version" -> "InvalidVersion"
      [] record = "integer" -> "InvalidInteger"
      [] record = "float" -> "InvalidFloat"
      [] record = "string" -> "InvalidString"

\* The stream is a strict prefix of the encoding of the CompiledCode.
Truncated ==
    /\ code # None
    /\ output # None
    /\ Len(stream) < Len(Encode(code[1]))

\* C26: parsing a strict prefix of a valid stream returns an error and no
\* CompiledCode, and the error is the kind of the record the first missing
\* byte belongs to: InvalidSignature, InvalidVersion, InvalidInteger,
\* InvalidFloat, or InvalidString anywhere in a string record.
C26_TruncationErrorKind ==
    Truncated =>
       /\ ~output[1].result.ok
       /\ output[1].result.value = <<>>
       /\ output[1].result.error =
             <<ErrorKind(Encode(code[1])[Len(stream) + 1].record)>>

\* Parsing a strict prefix of a valid stream returns an error, of the kind
\* of the primitive the first missing byte belongs to: the length of a
\* string record is an integer.
TruncationErrorOfPrimitive ==
    Truncated =>
       /\ ~output[1].result.ok
       /\ output[1].result.value = <<>>
       /\ output[1].result.error =
             <<ErrorKind(Encode(code[1])[Len(stream) + 1].primitive)>>

\* C27: read_string on a u64 length n followed by at least n bytes, the
\* first n of them a UTF-8 string, takes 8 + n bytes and returns those n
\* bytes as the string; what follows stays in the stream.
C27_ReadStringObeysLength ==
    (output # None /\ output[1].reader = "read_string")
    => \A n \in 0..(Len(stream) - 8) :
          (/\ SubSeq(stream, 1, 8) = Bytes(pack_u64(<<0, 0, 0, n>>))
           /\ \A i \in 1..n : stream[8 + i] # IoError
           /\ from_utf8(SubSeq(stream, 9, 8 + n), 1))
          => /\ output[1].result = Ok(SubSeq(stream, 9, 8 + n))
             /\ output[1].pos = 8 + n

\* Length 2 and the content "aeo": the string is "ae", the "o" is unread.
C27_Witness ==
    /\ output # None
    /\ output[1].reader = "read_string"
    /\ stream = <<0, 0, 0, 0, 0, 0, 0, 2, 97, 101, 111>>
    /\ output[1].result = Ok(<<97, 101>>)
    /\ output[1].pos = 10

\* C28: parsing the whole encoding of a CompiledCode gives a CompiledCode
\* equal on every field (floats compared by their bits) and takes every
\* byte, with u32 and u64 values whose high bit is set and with nested
\* code objects.
C28_ParseRoundTrip ==
    (code # None /\ output # None /\ stream = Bytes(Encode(code[1])))
    => /\ output[1].result = Ok(code[1])
       /\ output[1].pos = Len(stream)

\* A CompiledCode with line 2^31, 2^32 - 1 arguments, an instruction
\* argument 2^31, the integer literal -1 and a nested code object was
\* encoded and parsed.
C28_Witness ==
    /\ code # None
    /\ output # None
    /\ stream = Bytes(Encode(code[1]))
    /\ output[1].result.ok
    /\ code[1].line = <<32768, 0>>
    /\ code[1].arguments = <<65535, 65535>>
    /\ \E i \in DOMAIN code[1].instructions :
          \E j \in DOMAIN code[1].instructions[i].arguments :
             code[1].instructions[i].arguments[j] = <<32768, 0>>
    /\ \E i \in DOMAIN code[1].integer_literals :
          code[1].integer_literals[i] = <<-1, 65535, 65535>>
    /\ code[1].code_objects # <<>>

\* C30: contexts() yields the context itself, then its parent, and so on
\* to the root, each context of the chain once and in this order; with n
\* ancestors these are n + 1 items, and every next() after them is none.
C30_ContextsWalksTheChain ==
    iterator # None =>
       \A i \in DOMAIN yielded :
          yielded[i] = IF i <= Ancestors + 1
                          THEN Some(SubSeq(chain, i, Len(chain)))
                          ELSE None

\* tests::test_contexts: a context with two ancestors, three items and then
\* none.
C30_Witness ==
    /\ iterator # None
    /\ Ancestors = 2
    /\ Len(yielded) = 4
    /\ yielded[1] = Some(chain)
    /\ yielded[3] = Some(<<chain[3]>>)
    /\ yielded[4] = None

\* How often an item occurs in a sequence.
Count(items, item) == Cardinality({i \in DOMAIN items : items[i] = item})

\* Two sequences with the same items, each as often in one as in the other.
SameMultiset(a, b) ==
    /\ Len(a) = Len(b)
    /\ \A i \in DOMAIN a : Count(a, a[i]) = Count(b, a[i])

\* How many times a context was scanned, by all the threads together.
Scans(c) ==
    Cardinality({<<t, k>> \in ({Caller} \cup Stealers) \X (1..Len(context)) :
                    k \in DOMAIN scanned[t] /\ scanned[t][k] = c})

\* C29: in every interleaving of the caller and the three stealers no
\* context is scanned twice; when roots() returns every context was scanned
\* by exactly one thread, every stealer has been joined, and the result has
\* the same multiset of slot handles as the serial walk over contexts().
C29_RootsScansEachContextOnce ==
    /\ \A c \in 1..Len(context) : Scans(c) <= 1
    /\ rpc[Caller] = "returned" =>
          /\ \A c \in 1..Len(context) : Scans(c) = 1
          /\ \A t \in Stealers : rpc[t] = "joined"
          /\ SameMultiset(pointers,
                          PushPointers(context,
                                       [i \in 1..Len(context) |-> i]))

\* What the step-by-step roots() returns is one of the results of Roots.
RootsParallelResults ==
    rpc[Caller] = "returned" => pointers \in RootsResults(context)

\* roots() has returned on a stack of two contexts: the caller popped the
\* parent, a stealer took the current context, and the handles come in
\* another order than in the serial walk.
C29_Witness ==
    /\ rpc[Caller] = "returned"
    /\ Len(context) = 2
    /\ scanned[Caller] = <<2>>
    /\ \E t \in Stealers : scanned[t] = <<1>>
    /\ context[1].register[0] # None
    /\ pointers # PushPointers(context, <<1, 2>>)

\* C31: push_context(c) makes c the current context and the stack it was
\* called on the chain of its parents; pop_context() makes the parent the
\* current context, with every context of the chain as it was; on a top-level
\* context pop_context() changes nothing; the stack is never empty.
C31_ContextStack ==
    [][/\ Len(context') >= 1
       /\ (stack_call = "push_context" /\ UNCHANGED stack_vars) =>
             /\ context'[1] = WithObject(Null)
             /\ Tail(context') = context
       /\ (stack_call = "pop_context" /\ UNCHANGED stack_vars) =>
             IF at_top_level THEN context' = context
             ELSE context' = Tail(context)]_vars

\* pop_context() was called on a stack of two contexts and has run: the
\* parent, with the register, the local and the instruction index it was
\* given before the push, is the current context again.
C31_Witness ==
    /\ stack_call = "pop_context"
    /\ Len(stack_entry) = 2
    /\ context = Tail(stack_entry)
    /\ at_top_level
    /\ context[1].register[0] # None
    /\ context[1].locals[0] # None
    /\ context[1].instruction_index = 1

\* The GC thread has taken a Request and has not yet finished the
\* reset_status() that ends its handling.
GcHandling == pc["gc"] \notin {"idle", "put_back"}

\* The collection requests of the process that are queued or being handled.
Outstanding == gc_requests + (IF GcHandling THEN 1 ELSE 0)

\* C32: at most one collection request of the process is outstanding;
\* gc_state is Scheduled from the worker's gc_scheduled() until the
\* reset_status() of that very collection sets it to None, so that in
\* between should_schedule_gc() finds Scheduled and answers false, and the
\* worker calls gc_scheduled() only when no request is outstanding.
C32_OneOutstandingRequest ==
    /\ Outstanding <= 1
    /\ gc_state = "Scheduled" <=>
          (Outstanding = 1 \/ pc["worker"] = "post_request")
    /\ pc["worker"] \in {"gc_scheduled", "post_request"} => Outstanding = 0

\* reset_status() has set the status to Scheduled and not yet gc_state to
\* None, while the worker, with the young threshold exceeded, is in
\* should_schedule_gc().
C32_Witness ==
    /\ pc["gc"] = "rs_gc_state"
    /\ status = "Scheduled"
    /\ gc_state = "Scheduled"
    /\ pc["worker"] = "should_schedule_gc"
    /\ young_exceeded

\* C33: whenever the status is SuspendedByGc the GC thread is handling the
\* process (it is between request_gc_suspension() and the end of
\* reset_status()), and suspend_for_gc is false once reset_status() has
\* completed.
C33_NoOrphanSuspension ==
    /\ status = "SuspendedByGc" => GcHandling
    /\ pc["gc"] = "put_back" => ~suspend_for_gc

\* The threads that call the methods of the Thread.
Users == {Consumer, Stopper} \cup Schedulers

\* The mutex a thread is about to lock: "none" if its next step locks none.
Wants(t) ==
    CASE tpc[t] \in {"schedule_lock_wake_up", "stop_lock_wake_up",
                     "pop_process_lock_wake_up", "wait_for_work_lock"} ->
            "wake_up"
      [] tpc[t] = "wait_for_work_wait" /\ t \notin wakeup_signaler ->
            "wake_up"
      [] tpc[t] \in {"pop_process_lock_queue", "wait_for_work_size"} ->
            "process_queue"
      [] tpc[t] = "returned" -> "should_stop"
      [] OTHER -> "none"

\* The thread that holds a mutex, or "none".
Holder(mutex) ==
    CASE mutex = "wake_up" -> wake_up_lock
      [] mutex = "process_queue" -> queue_lock
      [] mutex = "should_stop" -> should_stop_lock
      [] OTHER -> "none"

\* A thread waits for a mutex that is held.
Blocked(t) == Holder(Wants(t)) # "none"

HoldsSome(t) == t \in {wake_up_lock, queue_lock, should_stop_lock}

\* C34: the mutexes are taken in an order with wake_up last: a thread that
\* waits while it holds a mutex waits for wake_up, and the holder of wake_up
\* waits for none; so the thread a blocked thread waits for is not blocked
\* itself, or the one that thread waits for is not, and no threads wait for
\* each other in a cycle.  A thread that is in none of the methods holds no
\* mutex.
C34_NoLockCycle ==
    /\ \A t \in Users : (Blocked(t) /\ HoldsSome(t)) => Wants(t) = "wake_up"
    /\ wake_up_lock # "none" => ~Blocked(wake_up_lock)
    /\ \A t \in Users :
          Blocked(t) =>
             \/ ~Blocked(Holder(Wants(t)))
             \/ ~Blocked(Holder(Wants(Holder(Wants(t)))))
    /\ \A t \in Users :
          tpc[t] \in {"idle", "returned", "stopped", "panicked"} =>
             ~HoldsSome(t)

\* stop() holds should_stop and wake_up, a schedule() holds process_queue and
\* waits for wake_up, and the worker waits for process_queue to read the
\* size of the queue.
C34_Witness ==
    /\ should_stop_lock = Stopper
    /\ wake_up_lock = Stopper
    /\ \E c \in Schedulers : queue_lock = c /\ Blocked(c)
    /\ tpc[Consumer] = "wait_for_work_size"
    /\ Blocked(Consumer)

\* C35: every process that schedule() has pushed is on the queue or was
\* returned by a pop_process() call, as often as it was pushed: none is
\* lost and none is returned twice; the size of the queue is the number of
\* schedule() calls less the number of pop_process() calls that returned.
C35_QueueConservesProcesses ==
    /\ \A task \in Tasks :
          schedules[task] = Count(process_queue, task) + pops[task]
    /\ Len(process_queue) = Calls(schedules) - Calls(pops)

\* Both schedulers have pushed while the worker popped: two processes were
\* returned, one of them twice scheduled, and one is on the queue.
C35_Witness ==
    /\ Calls(schedules) = 3
    /\ Calls(pops) = 2
    /\ \A task \in Tasks : pops[task] = 1
    /\ Len(process_queue) = 1
    /\ \A t \in Users : tpc[t] = "idle"

====
